---------------------------- MODULE Spec2Model ----------------------------
(***************************************************************************)
(* Hexa Stock (src/gestor_estoque.py): the stock-movement reconciliation   *)
(* engine of the Tkinter application, over the three worksheets it writes  *)
(* (equipamentos, movimentacoes, movimentacoes_setores) and the pandas     *)
(* DataFrames it keeps as a projection of them.                            *)
(*                                                                         *)
(* A worksheet is the sequence of its data rows: data row i is sheet row   *)
(* i + 1 (row 1 is the header).  Strings of the source that carry accents  *)
(* are written without them ("Saida" for 'Saída').  Of an equipment row    *)
(* the model keeps the columns id, quantidade, status and data_cadastro;   *)
(* nome, numero_serie, descricao, estoque_minimo and categoria are only    *)
(* validated, so the forms carry them as "filled in / valid or not".       *)
(***************************************************************************)
EXTENDS Integers, Sequences, FiniteSets, TLC

VARIABLES
    equip_sheet,        \* worksheet "equipamentos" (the store)
    mov_sheet,          \* worksheet "movimentacoes" (the store)
    mov_setores_sheet,  \* worksheet "movimentacoes_setores" (the store)
    equip_df,           \* self.equip_df
    mov_df,             \* self.mov_df
    mov_setores_df,     \* self.mov_setores_df
    relogio,            \* datetime.datetime.now(), in seconds
    descartados,        \* history: ids whose quantidade cell was last written by a Descarte
    last,               \* outcome of the last handler (message box shown, calls made)
    col,                \* an id column handed to _get_next_id (SpecNextId)
    res                 \* the value _get_next_id returned for col (SpecNextId)

vars == <<equip_sheet, mov_sheet, mov_setores_sheet, equip_df, mov_df,
          mov_setores_df, relogio, descartados, last, col, res>>

---------------------------------------------------------------------------
(* Bounds of the model.                                                    *)
MaxEquip == 2       \* data rows of "equipamentos"
MaxId == 2          \* largest equipment id handed out
MaxMov == 3         \* data rows of "movimentacoes"
MaxMovAbas == 2     \* the same where every form and handler of a tab is open
MaxSetores == 2     \* data rows of "movimentacoes_setores"
MaxQtd == 2         \* largest number typed in a quantity field
MaxEstoque == 2     \* largest stored quantidade
MaxRelogio == 1     \* last second of the clock
MaxCol == 3         \* longest id column handed to _get_next_id on its own
MaxLinhas == 4      \* rows of the whole spreadsheet when both tabs are used
MaxRelatorio == 2   \* rows of each sheet a report is drawn from

---------------------------------------------------------------------------
(* Text of a cell or of an entry field: a run of decimal digits with value *)
(* v (optionally signed for an entry field), or some other text.           *)
Num(n) == [num |-> TRUE, v |-> n]
Texto == [num |-> FALSE, v |-> 0]

EM_ESTOQUE == "Em Estoque"
FORA_DE_ESTOQUE == "Fora de Estoque"
DESCARTADO == "Descartado"

SAIDA == "Saida"
ENTRADA == "Entrada"
DESCARTE == "Descarte"
TiposMov == {SAIDA, ENTRADA, DESCARTE}

\* what the user types into a quantity Entry of the equipment form: an
\* integer text or a non-integer text
Entradas == {Texto} \cup {Num(n) : n \in -1..MaxQtd}
\* what the user types into the quantity Entry of an item to move
EntradasMov == {Texto} \cup {Num(n) : n \in 0..MaxQtd}
\* what the user types into the minimum-stock Entry
EntradasMinimo == {Texto, Num(-1), Num(1)}
\* what a text Entry can hold: nothing or something
Textos == {"", "t"}
\* what the Motivo/Laudo text box can hold: nothing, blanks, a padded text
Laudos == {"", " ", " m "}

\* str.strip() on the texts above
Strip(s) == IF s = " " THEN "" ELSE IF s = " m " THEN "m" ELSE s

---------------------------------------------------------------------------
(* ID assignment and row lookup.                                           *)

\* sheet.col_values(1)[1:] : the id cells of the data rows, as texts
\* ("equipamentos" and "movimentacoes_setores": column id)
ColValues(sheet) == [i \in 1..Len(sheet) |-> Num(sheet[i].id)]

\* the same on "movimentacoes", whose first column is id_movimentacao
MovColValues(sheet) == [i \in 1..Len(sheet) |-> Num(sheet[i].id_movimentacao)]

\* str(i).isdigit()
IsDigit(c) == c.num /\ c.v >= 0

\* max([int(i) for i in ids if str(i).isdigit()], default=0)
RECURSIVE MaxDigitos(_)
MaxDigitos(ids) ==
    IF ids = <<>> THEN 0
    ELSE LET m == MaxDigitos(Tail(ids))
         IN IF IsDigit(Head(ids)) /\ Head(ids).v > m THEN Head(ids).v ELSE m

\* a slip of _get_next_id: the number of rows + 1
NextIdPorContagem(ids) == Len(ids) + 1

_get_next_id(ids) == IF ids = <<>> THEN 1 ELSE MaxDigitos(ids) + 1

\* df.index[df['id'] == record_id].tolist()[0] + 2, or 0 for None
RECURSIVE PrimeiroIndice(_, _, _)
PrimeiroIndice(df, record_id, i) ==
    IF i > Len(df) THEN 0
    ELSE IF df[i].id = record_id THEN i
    ELSE PrimeiroIndice(df, record_id, i + 1)

_find_sheet_row_index_by_id(df, record_id) ==
    LET i == PrimeiroIndice(df, record_id, 1)
    IN IF i = 0 THEN 0 ELSE i + 1

\* worksheet.update_cell / update on one data row (sheet row r): a row below
\* the data is left as it is here, no handler of a single writer reaches one
UpdateRow(sheet, r, linha) ==
    IF r - 1 \in DOMAIN sheet THEN [sheet EXCEPT ![r - 1] = linha] ELSE sheet

\* worksheet.delete_rows(r)
DeleteRow(sheet, r) ==
    IF r - 1 \in DOMAIN sheet
    THEN [i \in 1..(Len(sheet) - 1) |-> IF i < r - 1 THEN sheet[i] ELSE sheet[i + 1]]
    ELSE sheet

\* the write that row number r addresses falls on a data row of the sheet.
\* A write below the data (possible only after rows were deleted from
\* elsewhere) would fill a blank row of the grid; such steps are not followed.
NaPlanilha(sheet, r) == r - 1 \in DOMAIN sheet

\* the ids of the rows of a sheet
IdsDe(sheet) == {sheet[i].id : i \in DOMAIN sheet}

\* the ids shown in the equipment Treeview (populate_treeview of equip_df)
TreeIds == {equip_df[i].id : i \in DOMAIN equip_df}

\* the ids a request selected, from its outcome record
Selecionados(l) == {l.atualizados[j] : j \in DOMAIN l.atualizados}

\* the outcome record of a handler
Resultado(op, msg) ==
    [op |-> op, msg |-> msg, tipo |-> "", pos |-> 0, item |-> 0, qtd |-> Texto,
     n |-> 0, leituras |-> 0, atualizados |-> <<>>, form |-> <<>>, ja |-> 0,
     linhas |-> <<>>, sugestao |-> <<>>, qtds |-> <<>>, novas |-> <<>>]

\* no message box is open: every handler ends on a modal message box
\* (showinfo, showwarning, showerror) that the user closes before the next
\* handler can start
Ocioso == Resultado("", "")

fechar_aviso ==
    /\ last # Ocioso
    /\ last' = Ocioso
    /\ UNCHANGED <<equip_sheet, mov_sheet, mov_setores_sheet, equip_df, mov_df,
                   mov_setores_df, relogio, descartados, col, res>>

---------------------------------------------------------------------------
(* Equipment CRUD.                                                         *)

\* int(quantidade_str) raised ValueError
NaoInteiro(e) == ~e.num

\* a slip of the status rule: the quantity is not looked at
StatusDeSempreEmEstoque(quantidade) == EM_ESTOQUE

StatusDe(quantidade) == IF quantidade > 0 THEN EM_ESTOQUE ELSE FORA_DE_ESTOQUE

\* the validation shared by adicionar_equipamento and salvar_edicao:
\* "" when the form is accepted, else the warning shown
ValidarCadastro(nomeCategoriaOk, quantidade_str, estoque_minimo_str) ==
    IF ~nomeCategoriaOk THEN "CamposVazios"
    ELSE IF NaoInteiro(quantidade_str) \/ NaoInteiro(estoque_minimo_str)
         THEN "ValorInvalido_NaoInteiro"
    ELSE IF quantidade_str.v < 0 \/ estoque_minimo_str.v < 0
         THEN "ValorInvalido_Negativo"
    ELSE ""

Rejeitado(op, msg) ==
    /\ last' = Resultado(op, msg)
    /\ UNCHANGED <<equip_sheet, mov_sheet, mov_setores_sheet, equip_df, mov_df,
                   mov_setores_df, relogio, descartados, col, res>>

\* a slip of the reload: only the equipment DataFrame is read again
RefreshSoEquipamentos(equip, mov, setores) ==
    /\ equip_df' = equip
    /\ mov_df' = mov_df
    /\ mov_setores_df' = mov_setores_df

\* refresh_all_data -> refresh_dataframes, after the handler's writes
Refresh(equip, mov, setores) ==
    /\ equip_df' = equip
    /\ mov_df' = mov
    /\ mov_setores_df' = setores

adicionar_equipamento(nomeCategoriaOk, quantidade_str, estoque_minimo_str) ==
    /\ last = Ocioso
    /\ LET erro == ValidarCadastro(nomeCategoriaOk, quantidade_str, estoque_minimo_str)
       IN IF erro # "" THEN Rejeitado("adicionar", erro)
          ELSE LET novo_id == _get_next_id(ColValues(equip_sheet))
                   quantidade == quantidade_str.v
                   nova_linha == [id |-> novo_id, quantidade |-> quantidade,
                                  status |-> StatusDe(quantidade),
                                  data_cadastro |-> relogio]
               IN /\ Len(equip_sheet) < MaxEquip
                  /\ novo_id <= MaxId
                  /\ equip_sheet' = Append(equip_sheet, nova_linha)
                  /\ descartados' = descartados \ {novo_id}
                  /\ Refresh(equip_sheet', mov_sheet, mov_setores_sheet)
                  /\ last' = [Resultado("adicionar", "Sucesso") EXCEPT !.item = novo_id]
                  /\ UNCHANGED <<mov_sheet, mov_setores_sheet, relogio, col, res>>

salvar_edicao(item_id, nomeCategoriaOk, quantidade_str, estoque_minimo_str) ==
    /\ last = Ocioso
    /\ item_id \in TreeIds
    /\ LET erro == ValidarCadastro(nomeCategoriaOk, quantidade_str, estoque_minimo_str)
           row_index == _find_sheet_row_index_by_id(equip_df, item_id)
       IN IF erro # "" THEN Rejeitado("editar", erro)
          ELSE IF row_index = 0 THEN Rejeitado("editar", "Erro_NaoEncontrado")
          ELSE LET quantidade == quantidade_str.v
                   data_cadastro_original == equip_df[row_index - 1].data_cadastro
                   linha_atualizada == [id |-> item_id, quantidade |-> quantidade,
                                        status |-> StatusDe(quantidade),
                                        data_cadastro |-> data_cadastro_original]
               IN /\ NaPlanilha(equip_sheet, row_index)
                  /\ equip_sheet' = UpdateRow(equip_sheet, row_index, linha_atualizada)
                  /\ descartados' = (descartados \ {item_id}) \cap IdsDe(equip_sheet')
                  /\ Refresh(equip_sheet', mov_sheet, mov_setores_sheet)
                  /\ last' = [Resultado("editar", "Sucesso") EXCEPT
                                !.item = item_id, !.qtd = quantidade_str,
                                !.tipo = equip_sheet[row_index - 1].status]
                  /\ UNCHANGED <<mov_sheet, mov_setores_sheet, relogio, col, res>>

\* the ids of a selection in ascending order
RECURSIVE EmOrdem(_)
EmOrdem(ids) ==
    IF ids = {} THEN <<>>
    ELSE LET m == CHOOSE x \in ids : \A y \in ids : x <= y
         IN <<m>> \o EmOrdem(ids \ {m})

\* a slip of the order: the rows are deleted from the first one down
RECURSIVE DeleteAscending(_, _)
DeleteAscending(sheet, rows) ==
    IF rows = {} THEN sheet
    ELSE LET r == CHOOSE x \in rows : \A y \in rows : x <= y
         IN DeleteAscending(DeleteRow(sheet, r), rows \ {r})

\* sorted(rows_to_delete, reverse=True), then delete_rows on each
RECURSIVE DeleteDescending(_, _)
DeleteDescending(sheet, rows) ==
    IF rows = {} THEN sheet
    ELSE LET r == CHOOSE x \in rows : \A y \in rows : y <= x
         IN DeleteDescending(DeleteRow(sheet, r), rows \ {r})

excluir_equipamento(selected_items, confirm) ==
    /\ last = Ocioso
    /\ selected_items \subseteq TreeIds
    /\ IF selected_items = {} THEN Rejeitado("excluir", "NenhumItemSelecionado")
       ELSE IF ~confirm THEN Rejeitado("excluir", "Cancelado")
       ELSE LET rows_to_delete ==
                    {_find_sheet_row_index_by_id(equip_df, item_id) :
                        item_id \in selected_items} \ {0}
            IN /\ equip_sheet' = DeleteDescending(equip_sheet, rows_to_delete)
               /\ descartados' = descartados \cap IdsDe(equip_sheet')
               /\ Refresh(equip_sheet', mov_sheet, mov_setores_sheet)
               /\ last' = [Resultado("excluir", "Sucesso") EXCEPT
                             !.n = Cardinality(selected_items),
                             !.atualizados = EmOrdem(selected_items)]
               /\ UNCHANGED <<mov_sheet, mov_setores_sheet, relogio, col, res>>

---------------------------------------------------------------------------
(* Stock movements.  The movement window is modal (grab_set): between      *)
(* abrir_janela_movimentacao and the click on "Confirmar" no other handler *)
(* runs and equip_df is not reloaded, so items_para_movimentar is the      *)
(* selection of equip_df that get_data_from_tree_selection returns when    *)
(* the click arrives.  The action below is the click, with the selection   *)
(* the window was opened on.                                               *)

\* the rows of equip_df whose id is selected in the tree, in DataFrame order
get_data_from_tree_selection(selected_item_ids) ==
    SelectSeq(equip_df, LAMBDA r : r.id \in selected_item_ids)

\* a slip of the order: the oldest Saida of the item is taken
get_last_movement_info_primeira(item_id) ==
    LET movs_item == {i \in DOMAIN mov_df :
                         /\ mov_df[i].id_equipamento_fk = item_id
                         /\ mov_df[i].tipo_movimentacao = SAIDA}
    IN IF movs_item = {} THEN <<>>
       ELSE LET last_mov ==
                    CHOOSE i \in movs_item : \A j \in movs_item :
                        mov_df[i].id_movimentacao <= mov_df[j].id_movimentacao
            IN <<mov_df[last_mov].destino_origem, mov_df[last_mov].solicitante>>

\* (destino, solicitante) of the Saida of the item that sort_values by
\* id_movimentacao, descending, puts first; <<>> is None
get_last_movement_info(item_id) ==
    LET movs_item == {i \in DOMAIN mov_df :
                         /\ mov_df[i].id_equipamento_fk = item_id
                         /\ mov_df[i].tipo_movimentacao = SAIDA}
    IN IF movs_item = {} THEN <<>>
       ELSE LET last_mov ==
                    CHOOSE i \in movs_item : \A j \in movs_item :
                        mov_df[j].id_movimentacao <= mov_df[i].id_movimentacao
            IN <<mov_df[last_mov].destino_origem, mov_df[last_mov].solicitante>>

\* toggle_mov_type with Entrada and one item: the suggestion put first in the
\* options of the origin combobox, <<>> when there is none
Sugestao(tipo_mov, items) ==
    IF tipo_mov = ENTRADA /\ Len(items) = 1
    THEN get_last_movement_info(items[1].id)
    ELSE <<>>

\* a slip of the window: the quantity entries of a Descarte can be typed into
QtdsPossiveisLivres(tipo_mov, items) == [1..Len(items) -> EntradasMov]

\* toggle_mov_type: with Descarte every quantity Entry is filled with the
\* item's stock and disabled; with Saida or Entrada the user types into it
QtdsPossiveis(tipo_mov, items) ==
    IF tipo_mov = DESCARTE
    THEN {[i \in 1..Len(items) |-> Num(items[i].quantidade)]}
    ELSE [1..Len(items) -> EntradasMov]

\* a slip of the Descarte check: the justification is not trimmed
ValidarCamposSemStrip(tipo_mov, responsavel, destino_origem, motivo_laudo) ==
    IF responsavel = "" THEN "CampoVazio_Responsavel"
    ELSE IF tipo_mov \in {SAIDA, ENTRADA} /\ destino_origem = ""
         THEN "CamposVazios_DestinoOrigem"
    ELSE IF tipo_mov = DESCARTE /\ motivo_laudo = ""
         THEN "CampoObrigatorio_MotivoLaudo"
    ELSE ""

\* the required-field checks: "" when they pass, else the warning shown
ValidarCampos(tipo_mov, responsavel, destino_origem, motivo_laudo) ==
    IF responsavel = "" THEN "CampoVazio_Responsavel"
    ELSE IF tipo_mov \in {SAIDA, ENTRADA} /\ destino_origem = ""
         THEN "CamposVazios_DestinoOrigem"
    ELSE IF tipo_mov = DESCARTE /\ (motivo_laudo = "" \/ Strip(motivo_laudo) = "")
         THEN "CampoObrigatorio_MotivoLaudo"
    ELSE ""

\* a slip of the item check: the stock is not compared with the quantity
ValidarItemSemEstoque(tipo_mov, qtd_atual, qtd_entry) ==
    IF NaoInteiro(qtd_entry) THEN "ValorInvalido_NaoInteiro"
    ELSE IF qtd_entry.v <= 0 THEN "ValorInvalido_NaoPositivo"
    ELSE ""

\* the check of one item's quantity: "" when it is validated, else the error shown
ValidarItem(tipo_mov, qtd_atual, qtd_entry) ==
    IF NaoInteiro(qtd_entry) THEN "ValorInvalido_NaoInteiro"
    ELSE IF qtd_entry.v <= 0 THEN "ValorInvalido_NaoPositivo"
    ELSE IF tipo_mov = SAIDA /\ qtd_entry.v > qtd_atual THEN "EstoqueInsuficiente"
    ELSE ""

\* a slip of the validation loop: only the first item is checked
RECURSIVE PrimeiraFalhaSoPrimeiro(_, _, _, _)
PrimeiraFalhaSoPrimeiro(tipo_mov, items, qtds, i) ==
    IF i > 1 \/ i > Len(items) THEN 0
    ELSE IF ValidarItem(tipo_mov, items[i].quantidade, qtds[i]) # "" THEN i
    ELSE PrimeiraFalhaSoPrimeiro(tipo_mov, items, qtds, i + 1)

\* the validation loop returns at the first item that fails: its position, or 0
RECURSIVE PrimeiraFalha(_, _, _, _)
PrimeiraFalha(tipo_mov, items, qtds, i) ==
    IF i > Len(items) THEN 0
    ELSE IF ValidarItem(tipo_mov, items[i].quantidade, qtds[i]) # "" THEN i
    ELSE PrimeiraFalha(tipo_mov, items, qtds, i + 1)

\* a slip of the Saida branch: the moved quantity is not subtracted
NovaQtdSemSubtrair(tipo_mov, qtd_atual, qtd_a_mover) ==
    IF tipo_mov = SAIDA THEN qtd_atual
    ELSE IF tipo_mov = ENTRADA THEN qtd_atual + qtd_a_mover
    ELSE 0

\* a slip of the Entrada branch: one unit is added whatever the quantity moved
NovaQtdEntradaUnitaria(tipo_mov, qtd_atual, qtd_a_mover) ==
    IF tipo_mov = SAIDA THEN qtd_atual - qtd_a_mover
    ELSE IF tipo_mov = ENTRADA THEN qtd_atual + 1
    ELSE 0

NovaQtd(tipo_mov, qtd_atual, qtd_a_mover) ==
    IF tipo_mov = SAIDA THEN qtd_atual - qtd_a_mover
    ELSE IF tipo_mov = ENTRADA THEN qtd_atual + qtd_a_mover
    ELSE 0

\* a slip of the status rule: an emptied item stays "Em Estoque"
NovoStatusSempreEmEstoque(tipo_mov, nova_qtd) ==
    IF tipo_mov = DESCARTE THEN DESCARTADO ELSE EM_ESTOQUE

\* a slip of the Entrada branch: the status is left to the quantity test of Saida
\* and the Descarte branch reports "Fora de Estoque"
NovoStatusSemDescartado(tipo_mov, nova_qtd) ==
    IF nova_qtd > 0 THEN EM_ESTOQUE ELSE FORA_DE_ESTOQUE

NovoStatus(tipo_mov, nova_qtd) ==
    IF tipo_mov = SAIDA THEN (IF nova_qtd > 0 THEN EM_ESTOQUE ELSE FORA_DE_ESTOQUE)
    ELSE IF tipo_mov = ENTRADA THEN EM_ESTOQUE
    ELSE DESCARTADO

\* worksheet.update_cell(row, 5 | 6, value) on "equipamentos"
update_cell(sheet, row, c, value) ==
    IF row - 1 \in DOMAIN sheet
    THEN [sheet EXCEPT ![row - 1] =
            IF c = 5 THEN [@ EXCEPT !.quantidade = value]
            ELSE [@ EXCEPT !.status = value]]
    ELSE sheet

\* a slip of the timestamp: now() is read again for each row of the batch
DataMovPorLinha(agora, decorrido, i) == IF i > 1 THEN agora + decorrido ELSE agora

\* data_mov is read once, before the loop; row i of the batch carries it
\* although `decorrido` seconds pass while the handler's remote calls run
DataMov(agora, decorrido, i) == agora

\* a slip of the id of a new row: the length of the batch so far is not added
MovIdSemDeslocamento(ids, novas_movimentacoes) == _get_next_id(ids)

\* mov_id = self._get_next_id(self.mov_sheet) + len(novas_movimentacoes)
MovId(ids, novas_movimentacoes) == _get_next_id(ids) + Len(novas_movimentacoes)

\* a slip of the final write: the new rows replace the sheet's rows
append_rows_substitui(sheet, rows) == rows

\* worksheet.append_rows(rows)
append_rows(sheet, rows) == sheet \o rows

\* a slip of the new row: every text goes in as it was typed
NovaMovimentacaoComoDigitado(mov_id, item_id, qtd_a_mover, f, i) ==
    [id_movimentacao |-> mov_id,
     id_equipamento_fk |-> item_id,
     tipo_movimentacao |-> f.tipo_mov,
     quantidade |-> qtd_a_mover,
     destino_origem |-> f.destino_origem,
     solicitante |-> f.solicitante,
     chamado |-> f.chamado,
     responsavel |-> f.responsavel,
     data_movimentacao |-> DataMov(f.agora, f.decorrido, i),
     motivo_laudo |-> f.motivo_laudo]

\* the row appended to novas_movimentacoes for item i
NovaMovimentacao(mov_id, item_id, qtd_a_mover, f, i) ==
    [id_movimentacao |-> mov_id,
     id_equipamento_fk |-> item_id,
     tipo_movimentacao |-> f.tipo_mov,
     quantidade |-> qtd_a_mover,
     destino_origem |-> f.destino_origem,
     solicitante |-> IF f.tipo_mov # DESCARTE THEN f.solicitante ELSE "",
     chamado |-> IF f.tipo_mov # DESCARTE THEN f.chamado ELSE "",
     responsavel |-> f.responsavel,
     data_movimentacao |-> DataMov(f.agora, f.decorrido, i),
     motivo_laudo |-> IF f.tipo_mov = DESCARTE THEN Strip(f.motivo_laudo) ELSE ""]

\* the processing loop over items_validados, from item i on.  acc carries the
\* "equipamentos" sheet as written so far, novas_movimentacoes, the number of
\* reads of the id column of "movimentacoes" and the ids whose row was updated
RECURSIVE ProcessarItens(_, _, _, _)
ProcessarItens(items_validados, i, f, acc) ==
    IF i > Len(items_validados) THEN acc
    ELSE LET item == items_validados[i]
             item_id == item.data.id
             qtd_atual == item.data.quantidade
             qtd_a_mover == item.qtd_a_mover
             nova_qtd == NovaQtd(f.tipo_mov, qtd_atual, qtd_a_mover)
             novo_status == NovoStatus(f.tipo_mov, nova_qtd)
             row_index == _find_sheet_row_index_by_id(equip_df, item_id)
             equip == IF row_index # 0
                      THEN update_cell(update_cell(acc.equip, row_index, 5, nova_qtd),
                                       row_index, 6, novo_status)
                      ELSE acc.equip
             mov_id == MovId(MovColValues(mov_sheet), acc.novas)
             registro == NovaMovimentacao(mov_id, item_id, qtd_a_mover, f, i)
         IN ProcessarItens(items_validados, i + 1, f,
                [equip |-> equip,
                 novas |-> Append(acc.novas, registro),
                 leituras |-> acc.leituras + 1,
                 atualizados |-> IF row_index # 0
                                 THEN Append(acc.atualizados, item_id)
                                 ELSE acc.atualizados])

confirmar_movimentacao(selected_items_ids, tipo_mov, qtds, responsavel, solicitante, chamado, destino_origem, motivo_laudo, Decorridos) ==
    /\ last = Ocioso
    /\ selected_items_ids \subseteq TreeIds
    /\ LET items == get_data_from_tree_selection(selected_items_ids)
           erro == ValidarCampos(tipo_mov, responsavel, destino_origem, motivo_laudo)
           falha == PrimeiraFalha(tipo_mov, items, qtds, 1)
           \* the texts the click read from the window
           pedido == [Resultado("confirmar", "") EXCEPT
                         !.tipo = tipo_mov,
                         !.form = <<responsavel, destino_origem, solicitante,
                                    chamado, motivo_laudo>>,
                         !.sugestao = Sugestao(tipo_mov, items)]
       IN IF selected_items_ids = {}
          THEN Rejeitado("confirmar", "NenhumItemSelecionado")
          ELSE IF erro # ""
          THEN /\ last' = [pedido EXCEPT !.msg = erro]
               /\ UNCHANGED <<equip_sheet, mov_sheet, mov_setores_sheet, equip_df,
                              mov_df, mov_setores_df, relogio, descartados,
                              col, res>>
          ELSE IF falha # 0
          THEN /\ last' = [pedido EXCEPT
                                !.msg = ValidarItem(tipo_mov, items[falha].quantidade,
                                                    qtds[falha]),
                                !.pos = falha,
                                !.item = items[falha].id, !.qtd = qtds[falha]]
               /\ UNCHANGED <<equip_sheet, mov_sheet, mov_setores_sheet, equip_df,
                              mov_df, mov_setores_df, relogio, descartados,
                              col, res>>
          ELSE \E decorrido \in Decorridos :
               \* `decorrido` seconds pass while the remote calls below run
               LET items_validados ==
                       [i \in 1..Len(items) |->
                           [data |-> items[i], qtd_a_mover |-> qtds[i].v]]
                   f == [tipo_mov |-> tipo_mov, responsavel |-> responsavel,
                         solicitante |-> solicitante, chamado |-> chamado,
                         destino_origem |-> destino_origem,
                         motivo_laudo |-> motivo_laudo,
                         agora |-> relogio, decorrido |-> decorrido]
                   p == ProcessarItens(items_validados, 1, f,
                            [equip |-> equip_sheet, novas |-> <<>>,
                             leituras |-> 0, atualizados |-> <<>>])
                   rows == {_find_sheet_row_index_by_id(equip_df, items[i].id) :
                               i \in DOMAIN items} \ {0}
                   \* the ids of the rows the update_cell calls fell on
                   ids == {equip_sheet[r - 1].id : r \in rows}
               IN /\ \A r \in rows : NaPlanilha(equip_sheet, r)
                  /\ Len(mov_sheet) + Len(p.novas) <= MaxMov
                  /\ \A i \in DOMAIN p.equip : p.equip[i].quantidade <= MaxEstoque
                  /\ relogio + decorrido <= MaxRelogio
                  /\ equip_sheet' = p.equip
                  /\ mov_sheet' = append_rows(mov_sheet, p.novas)
                  /\ relogio' = relogio + decorrido
                  /\ descartados' = IF tipo_mov = DESCARTE
                                    THEN descartados \cup ids
                                    ELSE descartados \ ids
                  /\ Refresh(equip_sheet', mov_sheet', mov_setores_sheet)
                  /\ last' = [pedido EXCEPT !.msg = "Sucesso",
                                             !.n = Len(p.novas),
                                             !.leituras = p.leituras,
                                             !.atualizados = p.atualizados]
                  /\ UNCHANGED <<mov_setores_sheet, col, res>>

---------------------------------------------------------------------------
(* The same handler one remote call at a time.  Each update_cell and the   *)
(* append_rows is a request to the spreadsheet of its own: the sheet is    *)
(* as the calls already made left it while the next one is on its way, and *)
(* a call that raises ends the handler there, with no refresh.  While the  *)
(* handler runs, `last` holds its position: the item of the loop (pos),    *)
(* the update_cell calls made for that item (n), the validated quantities  *)
(* and novas_movimentacoes.                                                *)

EmCurso == last.op = "confirmar" /\ last.msg = "EmCurso"

\* items_para_movimentar of the handler that is running
ItensEmCurso == get_data_from_tree_selection(Selecionados(last))

\* the click, up to the first remote call: the checks of confirmar_movimentacao
iniciar_movimentacao(selected_items_ids, tipo_mov, qtds, responsavel, solicitante, chamado, destino_origem, motivo_laudo) ==
    /\ last = Ocioso
    /\ selected_items_ids \subseteq TreeIds
    /\ selected_items_ids # {}
    /\ LET items == get_data_from_tree_selection(selected_items_ids)
           erro == ValidarCampos(tipo_mov, responsavel, destino_origem, motivo_laudo)
           falha == PrimeiraFalha(tipo_mov, items, qtds, 1)
           pedido == [Resultado("confirmar", "") EXCEPT
                         !.tipo = tipo_mov,
                         !.form = <<responsavel, destino_origem, solicitante,
                                    chamado, motivo_laudo>>,
                         !.sugestao = Sugestao(tipo_mov, items)]
       IN /\ last' =
               IF erro # "" THEN [pedido EXCEPT !.msg = erro]
               ELSE IF falha # 0
               THEN [pedido EXCEPT
                        !.msg = ValidarItem(tipo_mov, items[falha].quantidade,
                                            qtds[falha]),
                        !.pos = falha, !.item = items[falha].id,
                        !.qtd = qtds[falha]]
               ELSE [pedido EXCEPT
                        !.msg = "EmCurso", !.pos = 1,
                        !.atualizados = EmOrdem(selected_items_ids),
                        !.qtds = [i \in 1..Len(items) |-> qtds[i].v]]
          /\ (erro = "" /\ falha = 0) =>
                 /\ Len(mov_sheet) + Len(items) <= MaxMovAbas
                 /\ \A i \in DOMAIN items :
                        NovaQtd(tipo_mov, items[i].quantidade, qtds[i].v) <= MaxEstoque
    /\ UNCHANGED <<equip_sheet, mov_sheet, mov_setores_sheet, equip_df, mov_df,
                   mov_setores_df, relogio, descartados, col, res>>

\* self.equip_sheet.update_cell(row_index, 5, nova_qtd) for the item of the loop
escrever_quantidade ==
    /\ EmCurso
    /\ last.pos <= Len(ItensEmCurso)
    /\ last.n = 0
    /\ LET item == ItensEmCurso[last.pos]
           nova_qtd == NovaQtd(last.tipo, item.quantidade, last.qtds[last.pos])
           row_index == _find_sheet_row_index_by_id(equip_df, item.id)
       IN equip_sheet' = IF row_index # 0
                         THEN update_cell(equip_sheet, row_index, 5, nova_qtd)
                         ELSE equip_sheet
    /\ last' = [last EXCEPT !.n = 1]
    /\ UNCHANGED <<mov_sheet, mov_setores_sheet, equip_df, mov_df, mov_setores_df,
                   relogio, descartados, col, res>>

\* self.equip_sheet.update_cell(row_index, 6, novo_status), then the item's
\* row is put into novas_movimentacoes and the loop goes on
escrever_status ==
    /\ EmCurso
    /\ last.pos <= Len(ItensEmCurso)
    /\ last.n = 1
    /\ LET item == ItensEmCurso[last.pos]
           qtd_a_mover == last.qtds[last.pos]
           nova_qtd == NovaQtd(last.tipo, item.quantidade, qtd_a_mover)
           novo_status == NovoStatus(last.tipo, nova_qtd)
           row_index == _find_sheet_row_index_by_id(equip_df, item.id)
           f == [tipo_mov |-> last.tipo, responsavel |-> last.form[1],
                 destino_origem |-> last.form[2], solicitante |-> last.form[3],
                 chamado |-> last.form[4], motivo_laudo |-> last.form[5],
                 agora |-> relogio, decorrido |-> 0]
           mov_id == MovId(MovColValues(mov_sheet), last.novas)
       IN /\ equip_sheet' = IF row_index # 0
                            THEN update_cell(equip_sheet, row_index, 6, novo_status)
                            ELSE equip_sheet
          /\ descartados' = IF last.tipo = DESCARTE
                            THEN descartados \cup {item.id}
                            ELSE descartados \ {item.id}
          /\ last' = [last EXCEPT
                         !.n = 0, !.pos = @ + 1, !.leituras = @ + 1,
                         !.novas = Append(@, NovaMovimentacao(mov_id, item.id,
                                                              qtd_a_mover, f,
                                                              last.pos))]
    /\ UNCHANGED <<mov_sheet, mov_setores_sheet, equip_df, mov_df, mov_setores_df,
                   relogio, col, res>>

\* self.mov_sheet.append_rows(novas_movimentacoes), the message box and
\* refresh_all_data
anexar_movimentacoes ==
    /\ EmCurso
    /\ last.pos > Len(ItensEmCurso)
    /\ mov_sheet' = append_rows(mov_sheet, last.novas)
    /\ Refresh(equip_sheet, mov_sheet', mov_setores_sheet)
    /\ last' = [last EXCEPT !.msg = "Sucesso", !.n = Len(last.novas), !.pos = 0,
                            !.qtds = <<>>, !.novas = <<>>]
    /\ UNCHANGED <<equip_sheet, mov_setores_sheet, relogio, descartados, col, res>>

\* the remote call that is on its way raises (gspread APIError, no network):
\* the handler has no try/except, so it ends there; nothing more is written,
\* the DataFrames are not reloaded and the movement window stays open
falha_remota ==
    /\ EmCurso
    /\ last' = Resultado("confirmar", "ExcecaoRemota")
    /\ UNCHANGED <<equip_sheet, mov_sheet, mov_setores_sheet, equip_df, mov_df,
                   mov_setores_df, relogio, descartados, col, res>>

---------------------------------------------------------------------------
(* Transfers between sectors.  A patrimonio or servicetag cell is the      *)
(* sequence of its lines (the source joins the lines of a Kit with "\n").  *)

KIT == "Kit (2x Monitores e 1 desktop)"
TiposEquip == {"", KIT, "Monitor", "WebCam"}
Setores == {"", "A", "B"}
PENDENTE == "Pendente"
REGULARIZADO == "Regularizado"

\* the text of a single-line Entry as a cell
Linhas(s) == IF s = "" THEN <<>> ELSE <<s>>

\* f"Monitor 1: {a}\nMonitor 2: {b}\nDesktop: {c}"
LinhasKit(a, b, c) == <<a, b, c>>

\* a slip of the route check: the two sectors are never compared
RotaInvalidaNunca(origem, destino) == FALSE

\* if origem == destino
RotaInvalida(origem, destino) == origem = destino

\* a slip of the Kit check: only the first entry is looked at
KitIncompletoSoPrimeiro(k) == k[1] = ""

\* not all([p1, s1, p2, s2, p3, s3])
KitIncompleto(k) == \E i \in 1..6 : k[i] = ""

\* the form of registrar_movimentacao_setor: k holds the six Kit entries
\* (p1, s1, p2, s2, p3, s3), outrosOk says that responsavel, chamado and
\* solicitante are all filled in
registrar_movimentacao_setor(tipo_equip, k, patrimonio_entry, servicetag_entry, origem, destino, outrosOk) ==
    /\ last = Ocioso
    /\ LET kitIncompleto == tipo_equip = KIT /\ KitIncompleto(k)
           \* line 428 assigns the joined service tags to `ervicetag`
           patrimonio == IF tipo_equip = KIT THEN LinhasKit(k[1], k[3], k[5])
                         ELSE Linhas(patrimonio_entry)
           servicetag == IF tipo_equip = KIT THEN Linhas("")
                         ELSE Linhas(servicetag_entry)
           \* what was asked: the type, the route, the empty Kit entries
           pedido == [Resultado("registrar_setor", "") EXCEPT
                         !.tipo = tipo_equip, !.form = <<origem, destino>>,
                         !.n = Cardinality({i \in 1..6 : k[i] = ""})]
           erro == IF kitIncompleto THEN "CamposObrigatorios_Kit"
                   ELSE IF tipo_equip # KIT /\ patrimonio_entry = ""
                   THEN "CampoObrigatorio_Patrimonio"
                   ELSE IF tipo_equip \in {"Monitor", "Desktop"} /\ servicetag_entry = ""
                   THEN "CampoObrigatorio_ServiceTag"
                   ELSE IF tipo_equip = "" \/ origem = "" \/ destino = "" \/ ~outrosOk
                   THEN "CamposObrigatorios"
                   ELSE IF RotaInvalida(origem, destino) THEN "MovimentacaoInvalida"
                   ELSE ""
       IN IF erro # ""
          THEN /\ last' = [pedido EXCEPT !.msg = erro]
               /\ UNCHANGED <<equip_sheet, mov_sheet, mov_setores_sheet, equip_df,
                              mov_df, mov_setores_df, relogio, descartados, col, res>>
          ELSE LET novo_id == _get_next_id(ColValues(mov_setores_sheet))
                   nova_linha == [id |-> novo_id, data_movimentacao |-> relogio,
                                  tipo_equipamento |-> tipo_equip,
                                  patrimonio |-> patrimonio,
                                  servicetag |-> servicetag,
                                  setor_origem |-> origem,
                                  setor_destino |-> destino,
                                  status_regularizacao |-> PENDENTE]
               IN /\ Len(mov_setores_sheet) < MaxSetores
                  /\ novo_id <= MaxSetores
                  /\ mov_setores_sheet' = Append(mov_setores_sheet, nova_linha)
                  /\ Refresh(equip_sheet, mov_sheet, mov_setores_sheet')
                  /\ last' = [pedido EXCEPT !.msg = "Sucesso", !.item = novo_id]
                  /\ UNCHANGED <<equip_sheet, mov_sheet, relogio, descartados,
                                 col, res>>

\* the ids shown in the transfers Treeview (carregar_mov_setores_treeview)
SetoresTreeIds == {mov_setores_df[i].id : i \in DOMAIN mov_setores_df}

\* a slip of the value written: a row marked already goes back to "Pendente"
RECURSIVE batch_update_alterna(_, _)
batch_update_alterna(sheet, rows) ==
    IF rows = {} THEN sheet
    ELSE LET r == CHOOSE x \in rows : TRUE
         IN batch_update_alterna(
                IF r - 1 \in DOMAIN sheet
                THEN [sheet EXCEPT ![r - 1].status_regularizacao =
                         IF @ = REGULARIZADO THEN PENDENTE ELSE REGULARIZADO]
                ELSE sheet,
                rows \ {r})

\* a slip of the value written: "Pendente" goes into the cells
RECURSIVE batch_update_pendente(_, _)
batch_update_pendente(sheet, rows) ==
    IF rows = {} THEN sheet
    ELSE LET r == CHOOSE x \in rows : TRUE
         IN batch_update_pendente(
                IF r - 1 \in DOMAIN sheet
                THEN [sheet EXCEPT ![r - 1].status_regularizacao = PENDENTE]
                ELSE sheet,
                rows \ {r})

\* batch_update of the cells L{row} collected in `updates`
RECURSIVE batch_update(_, _)
batch_update(sheet, rows) ==
    IF rows = {} THEN sheet
    ELSE LET r == CHOOSE x \in rows : TRUE
         IN batch_update(
                IF r - 1 \in DOMAIN sheet
                THEN [sheet EXCEPT ![r - 1].status_regularizacao = REGULARIZADO]
                ELSE sheet,
                rows \ {r})

\* the loop of marcar_como_regularizado: the row numbers found for the selection
Updates(df, selected_items_ids) ==
    {_find_sheet_row_index_by_id(df, mov_id) : mov_id \in selected_items_ids} \ {0}

\* the sheet after the handler's write for a selection
Regularizada(sheet, df, selected_items_ids) ==
    batch_update(sheet, Updates(df, selected_items_ids))

marcar_como_regularizado(selected_items_ids) ==
    /\ last = Ocioso
    /\ selected_items_ids \subseteq SetoresTreeIds
    /\ IF selected_items_ids = {}
       THEN Rejeitado("regularizar", "NenhumItemSelecionado")
       ELSE LET updates == Updates(mov_setores_df, selected_items_ids)
                pedido == [Resultado("regularizar", "") EXCEPT
                              !.atualizados = EmOrdem(selected_items_ids),
                              !.ja = Cardinality({r \in updates :
                                        /\ NaPlanilha(mov_setores_sheet, r)
                                        /\ mov_setores_sheet[r - 1].status_regularizacao
                                               = REGULARIZADO})]
            IN IF updates = {}
               THEN /\ last' = [pedido EXCEPT !.msg = "Erro_NaoEncontrado"]
                    /\ UNCHANGED <<equip_sheet, mov_sheet, mov_setores_sheet,
                                   equip_df, mov_df, mov_setores_df, relogio,
                                   descartados, col, res>>
               ELSE /\ \A r \in updates : NaPlanilha(mov_setores_sheet, r)
                    /\ mov_setores_sheet' =
                           Regularizada(mov_setores_sheet, mov_setores_df,
                                        selected_items_ids)
                    /\ Refresh(equip_sheet, mov_sheet, mov_setores_sheet')
                    /\ last' = [pedido EXCEPT !.msg = "Sucesso",
                                              !.n = Cardinality(updates)]
                    /\ UNCHANGED <<equip_sheet, mov_sheet, relogio, descartados,
                                   col, res>>

---------------------------------------------------------------------------
(* The spreadsheet is shared: rows can be deleted from elsewhere between   *)
(* two handlers of this session, whose DataFrames then lag behind until    *)
(* the next refresh.                                                       *)

\* another session of the application deletes the equipment of data row i
outra_sessao_excluir(i) ==
    /\ last = Ocioso
    /\ i \in DOMAIN equip_sheet
    /\ equip_sheet' = DeleteRow(equip_sheet, i + 1)
    /\ descartados' = descartados \cap IdsDe(equip_sheet')
    /\ UNCHANGED <<mov_sheet, mov_setores_sheet, equip_df, mov_df, mov_setores_df,
                   relogio, last, col, res>>

\* data row i of "movimentacoes_setores" is deleted in the spreadsheet itself
edicao_externa_setores(i) ==
    /\ last = Ocioso
    /\ i \in DOMAIN mov_setores_sheet
    /\ mov_setores_sheet' = DeleteRow(mov_setores_sheet, i + 1)
    /\ UNCHANGED <<equip_sheet, mov_sheet, equip_df, mov_df, mov_setores_df,
                   relogio, descartados, last, col, res>>

\* the button "Atualizar Dados": refresh_all_data without a write
refresh_with_feedback ==
    /\ last = Ocioso
    /\ <<equip_df, mov_df, mov_setores_df>> # <<equip_sheet, mov_sheet, mov_setores_sheet>>
    /\ Refresh(equip_sheet, mov_sheet, mov_setores_sheet)
    /\ UNCHANGED <<equip_sheet, mov_sheet, mov_setores_sheet, relogio, descartados,
                   last, col, res>>

---------------------------------------------------------------------------
(* Reports.  A date is the text of a cell or of an entry: a day and a      *)
(* month of 2025 (with the second of the day in a data_movimentacao cell), *)
(* or a text that is no date.  A Timestamp is the number of seconds since  *)
(* 01/01/2025 00:00:00, and NaT where pandas has no Timestamp.             *)

SegundosPorDia == 86400

NaT == -1

\* the text dd/mm/2025 of a date entry
Data(dia, mes) == [dia |-> dia, mes |-> mes, valida |-> TRUE, seg |-> 0]

\* the text dd-mm-2025 HH:MM:SS of a data_movimentacao cell
DataHora(dia, mes, seg) == [dia |-> dia, mes |-> mes, valida |-> TRUE, seg |-> seg]

\* a text in neither format
OutroTexto == [dia |-> 0, mes |-> 0, valida |-> FALSE, seg |-> 0]

DiasDoMes(mes) == IF mes = 1 THEN 31 ELSE 28

DiasAntes(mes) == IF mes = 1 THEN 0 ELSE 31

\* strptime accepts the text
DataValida(d) == d.valida /\ d.mes \in 1..2 /\ d.dia \in 1..DiasDoMes(d.mes)

\* pd.to_datetime(text, format=...): the Timestamp, or NaT where the text
\* does not parse (ValueError for an entry, errors='coerce' for a column)
to_datetime(d) ==
    IF DataValida(d)
    THEN (DiasAntes(d.mes) + d.dia - 1) * SegundosPorDia + d.seg
    ELSE NaT

\* a slip of the end bound: the end day itself is left out
DataFimSemUltimoDia(data_fim_str) == to_datetime(data_fim_str)

\* pd.to_datetime(data_fim_str) + pd.Timedelta(days=1, seconds=-1)
DataFim(data_fim_str) == to_datetime(data_fim_str) + SegundosPorDia - 1

\* (dt >= data_inicio_dt) & (dt <= data_fim_dt); a comparison with NaT is False
NoIntervalo(dt, data_inicio_dt, data_fim_dt) ==
    dt # NaT /\ dt >= data_inicio_dt /\ dt <= data_fim_dt

\* sort_values(by=campo, ascending=False) of a frame, as the values of campo
RECURSIVE Decrescente(_)
Decrescente(ids) ==
    IF ids = {} THEN <<>>
    ELSE LET m == CHOOSE x \in ids : \A y \in ids : y <= x
         IN <<m>> \o Decrescente(ids \ {m})

\* hist_df of one item: the movements of the item, within the interval when
\* the filter is 'intervalo', by descending id_movimentacao
HistoricoDe(item_id, filtro_data, data_inicio_dt, data_fim_dt) ==
    Decrescente({mov_df[i].id_movimentacao : i \in
        {j \in DOMAIN mov_df :
            /\ mov_df[j].id_equipamento_fk = item_id
            /\ filtro_data = "intervalo" =>
                   NoIntervalo(to_datetime(mov_df[j].data_movimentacao),
                               data_inicio_dt, data_fim_dt)}})

\* the loop over df_relatorio, from item i on: the movements the report lists
RECURSIVE ConteudoDinamico(_, _, _, _)
ConteudoDinamico(i, filtro_data, data_inicio_dt, data_fim_dt) ==
    IF i > Len(equip_df) THEN <<>>
    ELSE HistoricoDe(equip_df[i].id, filtro_data, data_inicio_dt, data_fim_dt)
            \o ConteudoDinamico(i + 1, filtro_data, data_inicio_dt, data_fim_dt)

\* the file dialog is answered with a path
gerar_relatorio(incluir_historico, filtro_data, data_inicio_str, data_fim_str) ==
    /\ last = Ocioso
    /\ LET pedido == [Resultado("relatorio", "") EXCEPT
                         !.tipo = IF incluir_historico THEN "historico" ELSE "",
                         !.form = <<filtro_data, data_inicio_str, data_fim_str>>]
           data_inicio_dt == to_datetime(data_inicio_str)
           data_fim_dt == DataFim(data_fim_str)
       IN last' =
            IF equip_df = <<>> THEN [pedido EXCEPT !.msg = "RelatorioVazio"]
            ELSE IF /\ incluir_historico /\ filtro_data = "intervalo"
                    /\ (~DataValida(data_inicio_str) \/ ~DataValida(data_fim_str))
                 THEN [pedido EXCEPT !.msg = "DataInvalida"]
            \* the columns of an empty mov_df do not exist: KeyError
            ELSE IF incluir_historico /\ mov_df = <<>>
                 THEN [pedido EXCEPT !.msg = "ErroAoGerar"]
            ELSE [pedido EXCEPT
                     !.msg = "Sucesso",
                     !.linhas = IF incluir_historico
                                THEN ConteudoDinamico(1, filtro_data, data_inicio_dt,
                                                      data_fim_dt)
                                ELSE <<>>]
    /\ UNCHANGED <<equip_sheet, mov_sheet, mov_setores_sheet, equip_df, mov_df,
                   mov_setores_df, relogio, descartados, col, res>>

\* the status cell of a frame that has no status_regularizacao column
SEM_COLUNA == "<sem coluna>"

\* the column is created with 'Pendente' when it is absent, then fillna('Pendente')
\* replaces the missing values: a blank cell is read as '' and is no missing value
StatusPreenchido(cell) == IF cell = SEM_COLUNA THEN PENDENTE ELSE cell

\* the status the list of transfers shows for a cell
StatusNaLista(cell) ==
    LET valor == IF cell = SEM_COLUNA THEN "" ELSE cell
    IN IF valor # "" THEN valor ELSE PENDENTE

\* the rows of mov_setores_df that pass the filters, as their ids in frame order
FiltrarSetores(filtro_status, filtro_data, data_inicio_dt, data_fim_dt) ==
    LET passa(r) ==
            /\ filtro_status = "pendentes" =>
                   StatusPreenchido(r.status_regularizacao) = PENDENTE
            /\ filtro_status = "regularizados" =>
                   StatusPreenchido(r.status_regularizacao) = REGULARIZADO
            /\ filtro_data = "intervalo" =>
                   NoIntervalo(to_datetime(r.data_movimentacao),
                               data_inicio_dt, data_fim_dt)
        filtrado == SelectSeq(mov_setores_df, passa)
    IN [i \in DOMAIN filtrado |-> filtrado[i].id]

gerar_relatorio_setores(filtro_status, filtro_data, data_inicio_str, data_fim_str) ==
    /\ last = Ocioso
    /\ LET pedido == [Resultado("relatorio_setores", "") EXCEPT
                         !.tipo = filtro_status,
                         !.form = <<filtro_data, data_inicio_str, data_fim_str>>]
           linhas == FiltrarSetores(filtro_status, filtro_data,
                                    to_datetime(data_inicio_str), DataFim(data_fim_str))
       IN last' =
            IF mov_setores_df = <<>> THEN [pedido EXCEPT !.msg = "RelatorioVazio"]
            ELSE IF /\ filtro_data = "intervalo"
                    /\ (~DataValida(data_inicio_str) \/ ~DataValida(data_fim_str))
                 THEN [pedido EXCEPT !.msg = "DataInvalida"]
            ELSE IF linhas = <<>>
                 THEN [pedido EXCEPT !.msg = "RelatorioVazio_Filtros"]
            ELSE [pedido EXCEPT !.msg = "Sucesso", !.linhas = linhas]
    /\ UNCHANGED <<equip_sheet, mov_sheet, mov_setores_sheet, equip_df, mov_df,
                   mov_setores_df, relogio, descartados, col, res>>

\* the list of transfers is drawn again: the status shown on each row of the
\* frame, in frame order
carregar_mov_setores_treeview ==
    /\ last = Ocioso
    /\ mov_setores_df # <<>>
    /\ last' = [Resultado("lista_setores", "Sucesso") EXCEPT
                   !.linhas = [i \in DOMAIN mov_setores_df |->
                                  StatusNaLista(mov_setores_df[i].status_regularizacao)]]
    /\ UNCHANGED <<equip_sheet, mov_sheet, mov_setores_sheet, equip_df, mov_df,
                   mov_setores_df, relogio, descartados, col, res>>

---------------------------------------------------------------------------
(* The clock, and the specifications.                                      *)

\* a second passes while the application is idle
Tick ==
    /\ last = Ocioso
    /\ relogio < MaxRelogio
    /\ relogio' = relogio + 1
    /\ UNCHANGED <<equip_sheet, mov_sheet, mov_setores_sheet, equip_df, mov_df,
                   mov_setores_df, descartados, last, col, res>>

\* after __init__: the sheets of a new spreadsheet hold their header rows
\* only, and refresh_all_data has loaded them
Init ==
    /\ equip_sheet = <<>>
    /\ mov_sheet = <<>>
    /\ mov_setores_sheet = <<>>
    /\ equip_df = <<>>
    /\ mov_df = <<>>
    /\ mov_setores_df = <<>>
    /\ relogio = 0
    /\ descartados = {}
    /\ last = Ocioso
    /\ col = <<>>
    /\ res = 0

\* the quantity and minimum-stock entries of the equipment form
Cadastros ==
    {[q |-> q, m |-> Num(1)] : q \in Entradas}
        \cup {[q |-> Num(1), m |-> m] : m \in EntradasMinimo}

\* the form is read only when nome and categoria are filled in
Adicionar ==
    \/ adicionar_equipamento(FALSE, Num(1), Num(1))
    \/ \E c \in Cadastros : adicionar_equipamento(TRUE, c.q, c.m)

Editar ==
    \E id \in 1..MaxId :
        \/ salvar_edicao(id, FALSE, Num(1), Num(1))
        \/ \E c \in Cadastros : salvar_edicao(id, TRUE, c.q, c.m)

Excluir ==
    \E sel \in SUBSET (1..MaxId), confirm \in BOOLEAN :
        excluir_equipamento(sel, confirm)

\* the texts of the movement form.  The entries of the Saida/Entrada frame
\* (solicitante, chamado) keep what was typed when the type is switched to
\* Descarte, and so does the Motivo/Laudo box the other way round;
\* get_destino_origem_value returns "" for a Descarte.
Formulario(responsavel, destino_origem, solicitante, chamado, motivo_laudo) ==
    [responsavel |-> responsavel, destino_origem |-> destino_origem,
     solicitante |-> solicitante, chamado |-> chamado,
     motivo_laudo |-> motivo_laudo]

Formularios(tipo_mov) ==
    IF tipo_mov = DESCARTE
    THEN {Formulario("", "", "", "", " m "),
          Formulario("r", "", "", "", ""),
          Formulario("r", "", "", "", " "),
          Formulario("r", "", "", "", " m "),
          Formulario("r", "", "s", "c", " m ")}
    ELSE {Formulario("", "d", "s", "c", ""),
          Formulario("r", "", "s", "c", ""),
          Formulario("r", "d", "", "", ""),
          Formulario("r", "d", "s", "c", " m ")}

\* one accepted form of each type
FormulariosAceitos(tipo_mov) ==
    IF tipo_mov = DESCARTE
    THEN {Formulario("r", "", "", "", " m ")}
    ELSE {Formulario("r", "d", "s", "c", "")}

\* the quantity entries are read only when the required fields are filled in
Confirmar(todos, Decorridos, linhas) ==
    \E sel \in SUBSET (1..MaxId), tipo_mov \in TiposMov :
        \E form \in IF todos THEN Formularios(tipo_mov) ELSE FormulariosAceitos(tipo_mov) :
            LET items == get_data_from_tree_selection(sel)
                umaQtd == [i \in 1..Len(items) |-> Num(1)]
                lidas == sel # {} /\ ValidarCampos(tipo_mov, form.responsavel,
                             form.destino_origem, form.motivo_laudo) = ""
            IN \E qtds \in IF lidas THEN QtdsPossiveis(tipo_mov, items) ELSE {umaQtd} :
                   /\ confirmar_movimentacao(sel, tipo_mov, qtds, form.responsavel,
                                             form.solicitante, form.chamado,
                                             form.destino_origem, form.motivo_laudo,
                                             Decorridos)
                   /\ Len(mov_sheet') <= linhas

\* accepted forms with two destinations and requesters for a Saida and an
\* origin typed in for an Entrada
FormulariosDestinos(tipo_mov) ==
    IF tipo_mov = DESCARTE THEN {Formulario("r", "", "", "", " m ")}
    ELSE IF tipo_mov = SAIDA
    THEN {Formulario("r", "d", "s", "c", ""), Formulario("r", "e", "t", "c", "")}
    ELSE {Formulario("r", "o", "s", "c", "")}

\* the window opened on one item or two
ConfirmarDestinos(linhas) ==
    \E sel \in SUBSET (1..MaxId), tipo_mov \in TiposMov :
        \E form \in FormulariosDestinos(tipo_mov) :
            LET items == get_data_from_tree_selection(sel)
            IN \E qtds \in IF sel # {} THEN QtdsPossiveis(tipo_mov, items)
                                      ELSE {<<>>} :
                   /\ confirmar_movimentacao(sel, tipo_mov, qtds, form.responsavel,
                                             form.solicitante, form.chamado,
                                             form.destino_origem, form.motivo_laudo,
                                             {0})
                   /\ Len(mov_sheet') <= linhas

\* the six Kit entries: all filled in, one left empty, or all empty
KitForms ==
    {[i \in 1..6 |-> "t"], [i \in 1..6 |-> ""]}
        \cup {[i \in 1..6 |-> IF i = j THEN "" ELSE "t"] : j \in 1..6}

\* what is typed into the transfers form
PedidoSetor(tipo_equip, k, p, st, origem, destino, outrosOk) ==
    [tipo_equip |-> tipo_equip, k |-> k, p |-> p, st |-> st, origem |-> origem,
     destino |-> destino, outrosOk |-> outrosOk]

SemKit == [i \in 1..6 |-> ""]

\* every form of the tab, or (todos = FALSE) one form of each outcome
PedidosSetor(todos) ==
    IF todos
    THEN {PedidoSetor(KIT, k, "", "", o, d, ok) :
             k \in KitForms, o \in Setores, d \in Setores, ok \in BOOLEAN}
         \cup {PedidoSetor(t, SemKit, p, st, o, d, ok) :
                  t \in TiposEquip \ {KIT}, p \in Textos, st \in Textos,
                  o \in Setores, d \in Setores, ok \in BOOLEAN}
    ELSE {PedidoSetor(KIT, [i \in 1..6 |-> "t"], "", "", "A", "B", TRUE),
          PedidoSetor(KIT, [i \in 1..6 |-> IF i = 2 THEN "" ELSE "t"], "", "", "A", "B", TRUE),
          PedidoSetor("Monitor", SemKit, "t", "t", "B", "A", TRUE),
          PedidoSetor("Monitor", SemKit, "t", "", "B", "A", TRUE),
          PedidoSetor("WebCam", SemKit, "t", "", "A", "A", TRUE),
          PedidoSetor("WebCam", SemKit, "", "", "A", "B", TRUE),
          PedidoSetor("WebCam", SemKit, "t", "", "A", "B", FALSE)}

RegistrarSetor(todos) ==
    \E f \in PedidosSetor(todos) :
        registrar_movimentacao_setor(f.tipo_equip, f.k, f.p, f.st, f.origem,
                                     f.destino, f.outrosOk)

Regularizar ==
    \E sel \in SUBSET (1..MaxSetores) : marcar_como_regularizado(sel)

\* _get_next_id on its own, over id columns of digit cells and text cells
IdCells == {Texto} \cup {Num(n) : n \in {0, 1, 3, 7}}

Colunas == UNION {[1..n -> IdCells] : n \in 0..MaxCol}

InitNextId ==
    /\ equip_sheet = <<>>
    /\ mov_sheet = <<>>
    /\ mov_setores_sheet = <<>>
    /\ equip_df = <<>>
    /\ mov_df = <<>>
    /\ mov_setores_df = <<>>
    /\ relogio = 0
    /\ descartados = {}
    /\ last = Ocioso
    /\ col \in Colunas
    /\ res = 0

ChamarNextId ==
    /\ res = 0
    /\ res' = _get_next_id(col)
    /\ UNCHANGED <<equip_sheet, mov_sheet, mov_setores_sheet, equip_df, mov_df,
                   mov_setores_df, relogio, descartados, last, col>>

\* the rows of the three worksheets together
TotalLinhas(e, m, s) == Len(e) + Len(m) + Len(s)

\* the stock tab, every handler within one second of the clock
NextEstoque ==
    \/ Adicionar
    \/ Editar
    \/ Excluir
    \/ Confirmar(TRUE, {0}, MaxMovAbas)
    \/ fechar_aviso

\* the stock tab with the clock running and one accepted form per type
NextRelogio ==
    \/ Adicionar
    \/ Editar
    \/ Excluir
    \/ Confirmar(FALSE, 0..1, MaxMovAbas)
    \/ Tick
    \/ fechar_aviso

\* adding, deleting and moving equipment, up to MaxMov movement records
NextLotes ==
    \/ Adicionar
    \/ Excluir
    \/ Confirmar(FALSE, {0}, MaxMov)
    \/ fechar_aviso

\* the clicks on "Confirmar" of accepted forms with whole numbers above 0 in
\* the quantity entries, for the handler run call by call
IniciarMovimentacao ==
    \E sel \in SUBSET (1..MaxId) \ {{}}, tipo_mov \in TiposMov :
        \E form \in FormulariosAceitos(tipo_mov) :
            LET items == get_data_from_tree_selection(sel)
            IN \E qtds \in QtdsPossiveis(tipo_mov, items)
                              \cap [1..Len(items) -> {Num(n) : n \in 0..MaxQtd}] :
                   /\ \A i \in DOMAIN qtds : qtds[i].v > 0 \/ tipo_mov = DESCARTE
                   /\ iniciar_movimentacao(sel, tipo_mov, qtds, form.responsavel,
                                           form.solicitante, form.chamado,
                                           form.destino_origem, form.motivo_laudo)

\* adding equipment and moving it, one remote call at a time
NextPassos ==
    \/ Adicionar
    \/ IniciarMovimentacao
    \/ escrever_quantidade
    \/ escrever_status
    \/ anexar_movimentacoes
    \/ falha_remota
    \/ refresh_with_feedback
    \/ fechar_aviso

\* adding and moving equipment, with destinations that differ
NextSugestao ==
    \/ Adicionar
    \/ ConfirmarDestinos(MaxMov)
    \/ fechar_aviso

\* the stock tab on a shared spreadsheet
NextCompartilhada ==
    \/ Adicionar
    \/ Editar
    \/ Excluir
    \/ Confirmar(FALSE, {0}, MaxMovAbas)
    \/ \E i \in 1..MaxEquip : outra_sessao_excluir(i)
    \/ refresh_with_feedback
    \/ fechar_aviso

\* the transfers tab on a shared spreadsheet
NextSetoresCompartilhada ==
    \/ RegistrarSetor(TRUE)
    \/ Regularizar
    \/ \E i \in 1..MaxSetores : edicao_externa_setores(i)
    \/ refresh_with_feedback
    \/ fechar_aviso

\* the transfers tab
NextSetores ==
    \/ RegistrarSetor(TRUE)
    \/ Regularizar
    \/ Tick
    \/ fechar_aviso

\* both tabs, on a spreadsheet of at most MaxLinhas rows
Cabe == TotalLinhas(equip_sheet', mov_sheet', mov_setores_sheet') <= MaxLinhas

Next ==
    \/ Adicionar /\ Cabe
    \/ Editar
    \/ Excluir
    \/ Confirmar(FALSE, {0}, MaxMovAbas) /\ Cabe
    \/ RegistrarSetor(FALSE) /\ Cabe
    \/ Regularizar
    \/ fechar_aviso

\* the spreadsheets the reports are drawn from: one equipment, up to
\* MaxRelatorio movements of it and up to MaxRelatorio transfers, dated at the
\* ends of January and with every state of the status cell
DatasDeCelula ==
    {DataHora(1, 1, 0), DataHora(31, 1, SegundosPorDia - 1), DataHora(1, 2, 0),
     OutroTexto}

LinhaMov(id, data) ==
    [id_movimentacao |-> id, id_equipamento_fk |-> 1, tipo_movimentacao |-> ENTRADA,
     quantidade |-> 1, destino_origem |-> "d", solicitante |-> "s", chamado |-> "c",
     responsavel |-> "r", data_movimentacao |-> data, motivo_laudo |-> ""]

LinhaSetor(id, data, status) ==
    [id |-> id, data_movimentacao |-> data, tipo_equipamento |-> "Monitor",
     patrimonio |-> <<"t">>, servicetag |-> <<"t">>, setor_origem |-> "A",
     setor_destino |-> "B", status_regularizacao |-> status]

MovsDeRelatorio ==
    UNION {{[i \in 1..n |-> LinhaMov(i, d[i])] : d \in [1..n -> DatasDeCelula]} :
              n \in 0..MaxRelatorio}

SetoresDeRelatorio ==
    UNION {{[i \in 1..n |-> LinhaSetor(i, c[i].data, c[i].status)] :
               c \in [1..n -> [data : {DataHora(31, 1, SegundosPorDia - 1),
                                       DataHora(1, 2, 0)},
                               status : {"", PENDENTE, REGULARIZADO}]]}
           \cup {[i \in 1..n |-> LinhaSetor(i, DataHora(1, 2, 0), SEM_COLUNA)]} :
              n \in 0..MaxRelatorio}

InitRelatorios ==
    /\ equip_sheet = <<[id |-> 1, quantidade |-> 1, status |-> EM_ESTOQUE,
                        data_cadastro |-> 0]>>
    /\ mov_sheet \in MovsDeRelatorio
    /\ mov_setores_sheet \in SetoresDeRelatorio
    /\ equip_df = equip_sheet
    /\ mov_df = mov_sheet
    /\ mov_setores_df = mov_setores_sheet
    /\ relogio = 0
    /\ descartados = {}
    /\ last = Ocioso
    /\ col = <<>>
    /\ res = 0

\* what is typed into the date entries of a report window
DatasDeFiltro == {Data(1, 1), Data(31, 1), Data(31, 2)}

\* the date entries are read only with the filter 'intervalo'
FiltrosDeData ==
    {<<"todos", Data(1, 1), Data(1, 1)>>}
        \cup {<<"intervalo", i, f>> : i \in DatasDeFiltro, f \in DatasDeFiltro}

GerarRelatorio ==
    \/ gerar_relatorio(FALSE, "todos", Data(1, 1), Data(1, 1))
    \/ \E f \in FiltrosDeData : gerar_relatorio(TRUE, f[1], f[2], f[3])

GerarRelatorioSetores ==
    \E filtro_status \in {"todos", "pendentes", "regularizados"}, f \in FiltrosDeData :
        gerar_relatorio_setores(filtro_status, f[1], f[2], f[3])

NextRelatorios ==
    \/ GerarRelatorio
    \/ GerarRelatorioSetores
    \/ carregar_mov_setores_treeview
    \/ fechar_aviso

Spec == Init /\ [][Next]_vars

SpecPassos == Init /\ [][NextPassos]_vars

SpecSugestao == Init /\ [][NextSugestao]_vars

SpecRelatorios == InitRelatorios /\ [][NextRelatorios]_vars

SpecEstoque == Init /\ [][NextEstoque]_vars

SpecRelogio == Init /\ [][NextRelogio]_vars

SpecLotes == Init /\ [][NextLotes]_vars

SpecSetores == Init /\ [][NextSetores]_vars

SpecCompartilhada == Init /\ [][NextCompartilhada]_vars

SpecSetoresCompartilhada == Init /\ [][NextSetoresCompartilhada]_vars

SpecNextId == InitNextId /\ [][ChamarNextId]_vars

---------------------------------------------------------------------------
(* Properties.                                                             *)

\* the data row of a sheet that holds an id
TemId(sheet, id) == PrimeiroIndice(sheet, id, 1) # 0
LinhaDe(sheet, id) == sheet[PrimeiroIndice(sheet, id, 1)]

\* the step is a movement that was carried out / that was turned down
MovimentacaoFeita == last'.op = "confirmar" /\ last'.msg = "Sucesso"
MovimentacaoRecusada == last'.op = "confirmar" /\ last'.msg # "Sucesso"

\* the positions of the movement records the step appended
NovasPosicoes == (Len(mov_sheet) + 1)..Len(mov_sheet')

\* C1: after any sequence of completed add, edit, movement and delete operations
\* every equipment row has status "Em Estoque" exactly when its quantity is
\* positive; a "Descartado" row has quantity 0, last written by a Descarte; and a
\* row with quantity 0 not written by a Descarte is "Fora de Estoque".
C1_StatusDerivado ==
    \A i \in DOMAIN equip_sheet :
        LET e == equip_sheet[i]
        IN /\ e.status \in {EM_ESTOQUE, FORA_DE_ESTOQUE, DESCARTADO}
           /\ e.quantidade >= 0
           /\ e.status = EM_ESTOQUE <=> e.quantidade > 0
           /\ e.status = DESCARTADO => e.quantidade = 0 /\ e.id \in descartados
           /\ (e.quantidade = 0 /\ e.id \notin descartados)
                 => e.status = FORA_DE_ESTOQUE

\* a movement has left one row "Descartado" next to a row "Fora de Estoque"
C1_Witness ==
    /\ last.op = "confirmar" /\ last.msg = "Sucesso"
    /\ \E i, j \in DOMAIN equip_sheet :
          /\ equip_sheet[i].status = DESCARTADO
          /\ equip_sheet[j].status = FORA_DE_ESTOQUE

\* C2: a Saida of q on an item with stock c, 0 < q <= c, leaves quantity c - q,
\* "Em Estoque" if that is positive and "Fora de Estoque" otherwise; with q > c
\* on the first item that fails its check the request is turned down with
\* "Estoque Insuficiente" naming that item, and no Saida is ever carried out with
\* q > c; a request turned down leaves quantity and status of every item as they were.
C2_Saida ==
    [][/\ (MovimentacaoFeita /\ last'.tipo = SAIDA) =>
            \A k \in NovasPosicoes :
                LET r == mov_sheet'[k]
                    c == LinhaDe(equip_sheet, r.id_equipamento_fk).quantidade
                    q == r.quantidade
                    depois == LinhaDe(equip_sheet', r.id_equipamento_fk)
                IN /\ 0 < q /\ q <= c
                   /\ depois.quantidade = c - q
                   /\ depois.status = IF c - q > 0 THEN EM_ESTOQUE
                                      ELSE FORA_DE_ESTOQUE
       /\ (MovimentacaoRecusada /\ last'.pos # 0) =>
            LET c == LinhaDe(equip_sheet, last'.item).quantidade
                excede == /\ last'.tipo = SAIDA
                          /\ last'.qtd.num /\ last'.qtd.v > 0 /\ last'.qtd.v > c
            IN /\ excede <=> last'.msg = "EstoqueInsuficiente"
               /\ equip_sheet' = equip_sheet
       ]_vars

\* a Saida of two items was carried out, one item emptied and one not
C2_Witness ==
    /\ last.op = "confirmar" /\ last.msg = "Sucesso" /\ last.tipo = SAIDA
    /\ last.n = 2
    /\ \E i, j \in DOMAIN equip_sheet :
          /\ equip_sheet[i].status = FORA_DE_ESTOQUE
          /\ equip_sheet[j].status = EM_ESTOQUE

\* C3: a batch is validated as a whole before anything is written: a request
\* turned down changes no equipment row and appends no movement record, and
\* whenever a request writes, every item of the batch had an integer quantity
\* above 0 and, for a Saida, within its stock.
C3_TudoOuNada ==
    [][/\ MovimentacaoRecusada =>
            equip_sheet' = equip_sheet /\ mov_sheet' = mov_sheet
       /\ (last'.op = "confirmar"
             /\ (equip_sheet' # equip_sheet \/ mov_sheet' # mov_sheet)) =>
            \A k \in NovasPosicoes :
                LET r == mov_sheet'[k]
                    c == LinhaDe(equip_sheet, r.id_equipamento_fk).quantidade
                IN /\ r.quantidade > 0
                   /\ r.tipo_movimentacao = SAIDA => r.quantidade <= c
       ]_vars

\* the second item of a batch failed its check after the first one passed
C3_Witness ==
    /\ last.op = "confirmar" /\ last.pos = 2
    /\ last.msg \in {"ValorInvalido_NaoInteiro", "ValorInvalido_NaoPositivo",
                     "EstoqueInsuficiente"}

\* C4: an Entrada of q on an item with stock c leaves quantity c + q and status
\* "Em Estoque" whatever the status was; a Descarte leaves quantity 0 and status
\* "Descartado" whatever the quantity moved.
C4_EntradaDescarte ==
    [][MovimentacaoFeita =>
          \A k \in NovasPosicoes :
              LET r == mov_sheet'[k]
                  c == LinhaDe(equip_sheet, r.id_equipamento_fk).quantidade
                  depois == LinhaDe(equip_sheet', r.id_equipamento_fk)
              IN /\ r.tipo_movimentacao = ENTRADA =>
                     /\ depois.quantidade = c + r.quantidade
                     /\ depois.status = EM_ESTOQUE
                 /\ r.tipo_movimentacao = DESCARTE =>
                     /\ depois.quantidade = 0
                     /\ depois.status = DESCARTADO
       ]_vars

\* an Entrada was carried out on an item that a Descarte had emptied
C4_Witness ==
    /\ last.op = "confirmar" /\ last.msg = "Sucesso" /\ last.tipo = ENTRADA
    /\ Len(mov_sheet) = 2
    /\ mov_sheet[1].tipo_movimentacao = DESCARTE
    /\ mov_sheet[2].tipo_movimentacao = ENTRADA
    /\ mov_sheet[1].id_equipamento_fk = mov_sheet[2].id_equipamento_fk
    /\ TemId(equip_sheet, mov_sheet[2].id_equipamento_fk)
    /\ LinhaDe(equip_sheet, mov_sheet[2].id_equipamento_fk).status = EM_ESTOQUE

\* C5: a movement of N items that is carried out appends exactly N records, the
\* k-th one with the equipment id of the k-th item, the type of the movement and
\* the quantity moved; all N carry the timestamp read once when the processing
\* started; and each item's row is updated exactly once, no other row changes.
C5_LoteCompleto ==
    [][MovimentacaoFeita =>
          LET n == last'.n
              ids == last'.atualizados
          IN /\ n >= 1
             /\ Len(mov_sheet') = Len(mov_sheet) + n
             /\ Len(ids) = n
             /\ \A a, b \in 1..n : a # b => ids[a] # ids[b]
             /\ \A j \in 1..n :
                   LET r == mov_sheet'[Len(mov_sheet) + j]
                       antes == LinhaDe(equip_sheet, ids[j])
                       depois == LinhaDe(equip_sheet', ids[j])
                   IN /\ r.id_equipamento_fk = ids[j]
                      /\ r.tipo_movimentacao = last'.tipo
                      /\ r.data_movimentacao = relogio
                      /\ r.quantidade > 0
                      /\ last'.tipo = SAIDA =>
                            depois.quantidade = antes.quantidade - r.quantidade
                      /\ last'.tipo = ENTRADA =>
                            depois.quantidade = antes.quantidade + r.quantidade
                      /\ last'.tipo = DESCARTE =>
                            r.quantidade = antes.quantidade /\ depois.quantidade = 0
             /\ Len(equip_sheet') = Len(equip_sheet)
             /\ \A i \in DOMAIN equip_sheet :
                   (\A j \in 1..n : equip_sheet[i].id # ids[j])
                       => equip_sheet'[i] = equip_sheet[i]
       ]_vars

\* two items were moved in one batch while the clock went on by a second
C5_Witness ==
    /\ last.op = "confirmar" /\ last.msg = "Sucesso" /\ last.n = 2
    /\ Len(mov_sheet) = 2
    /\ relogio = 1
    /\ mov_sheet[1].data_movimentacao = 0
    /\ mov_sheet[2].data_movimentacao = 0

\* C6: the id given to a newly added equipment was never given before: no
\* movement record kept in "movimentacoes" refers to it.
C6_IdNuncaReusado ==
    [][(last'.op = "adicionar" /\ last'.msg = "Sucesso") =>
          \A k \in DOMAIN mov_sheet : mov_sheet[k].id_equipamento_fk # last'.item
       ]_vars

\* the largest numeric id_movimentacao of a sheet, 0 when it has none
MaiorIdMov(sheet) ==
    IF sheet = <<>> THEN 0
    ELSE CHOOSE m \in {sheet[i].id_movimentacao : i \in DOMAIN sheet} :
            \A i \in DOMAIN sheet : sheet[i].id_movimentacao <= m

\* C7: the N records of a batch get the ids base, base + 1, ..., base + N - 1,
\* base being the largest id_movimentacao present before the batch plus 1; ids
\* grow strictly in append order and no two records share one.
C7_IdsDeMovimentacao ==
    [][MovimentacaoFeita =>
          LET base == MaiorIdMov(mov_sheet) + 1
          IN /\ \A j \in 1..last'.n :
                   mov_sheet'[Len(mov_sheet) + j].id_movimentacao = base + j - 1
             /\ \A a, b \in DOMAIN mov_sheet' :
                   a < b => mov_sheet'[a].id_movimentacao < mov_sheet'[b].id_movimentacao
       ]_vars

\* a batch of two items after an earlier movement got the ids 2 and 3
C7_Witness ==
    /\ last.op = "confirmar" /\ last.msg = "Sucesso" /\ last.n = 2
    /\ Len(mov_sheet) = 3
    /\ mov_sheet[2].id_movimentacao = 2
    /\ mov_sheet[3].id_movimentacao = 3

\* the values of the digit cells of an id column
Numericos(ids) == {ids[i].v : i \in {j \in DOMAIN ids : ids[j].num}}

\* C8: _get_next_id returns the largest numeric entry of the id column plus 1,
\* whatever non-numeric entries stand in the column, and 1 when the column is
\* empty or holds no numeric entry.
C8_NextId ==
    res # 0 =>
        IF Numericos(col) = {} THEN res = 1
        ELSE /\ res - 1 \in Numericos(col)
             /\ \A x \in Numericos(col) : x <= res - 1

\* the column 3, 7, "x" gave 8
C8_Witness ==
    /\ Len(col) = 3 /\ res = 8
    /\ col[1].num /\ col[1].v = 3 /\ col[2].num /\ col[2].v = 7 /\ ~col[3].num

\* C9: a movement that is carried out reads the id column of "movimentacoes"
\* once, however many items the batch has.
C9_UmaLeitura ==
    (last.op = "confirmar" /\ last.msg = "Sucesso") => last.leituras = 1

\* C10: no step changes or removes a movement record: the sheet "movimentacoes"
\* only grows at its end.
C10_SoAcrescenta ==
    [][/\ Len(mov_sheet') >= Len(mov_sheet)
       /\ \A i \in DOMAIN mov_sheet : mov_sheet'[i] = mov_sheet[i]
       ]_vars

\* an equipment was deleted and a movement record still refers to its id
C10_Witness ==
    /\ last.op = "excluir" /\ last.msg = "Sucesso"
    /\ \E k \in DOMAIN mov_sheet :
          ~TemId(equip_sheet, mov_sheet[k].id_equipamento_fk)

\* C11: in a movement that is carried out, an item whose id no longer resolves
\* to a row of "equipamentos" is dropped as a whole: no movement record is
\* appended for it (and no equipment row is written for it).
C11_ItemAbortado ==
    [][MovimentacaoFeita =>
          \A k \in NovasPosicoes :
              TemId(equip_sheet, mov_sheet'[k].id_equipamento_fk)
       ]_vars

\* the data row of the sheet that the row number found for id in df addresses
Alvo(sheet, df, id) == sheet[_find_sheet_row_index_by_id(df, id) - 1]

\* C12: the row written by a movement (update_cell) or by an edit (update of the
\* row's range) is the row of the targeted id in the sheet as it is when the
\* write is made, whatever was deleted from elsewhere since the last refresh.
C12_EscritaNoAlvo ==
    [][/\ MovimentacaoFeita =>
            \A j \in DOMAIN last'.atualizados :
                Alvo(equip_sheet, equip_df, last'.atualizados[j]).id
                    = last'.atualizados[j]
       /\ (last'.op = "editar" /\ last'.msg = "Sucesso") =>
            Alvo(equip_sheet, equip_df, last'.item).id = last'.item
       ]_vars

\* the three DataFrames hold what the three worksheets hold
ProjecaoEmDia(e, m, s, edf, mdf, sdf) == edf = e /\ mdf = m /\ sdf = s

\* C13: when an operation that writes to the spreadsheet (add, edit, delete,
\* movement, sector registration, regularize) ends with success, the three
\* DataFrames have been reloaded and equal the three worksheets.
C13_ProjecaoRecarregada ==
    [][last'.msg = "Sucesso" =>
          ProjecaoEmDia(equip_sheet', mov_sheet', mov_setores_sheet',
                        equip_df', mov_df', mov_setores_df')
       ]_vars

\* a movement was carried out and the DataFrames show its record and its row
C13_Witness ==
    /\ last.op = "confirmar" /\ last.msg = "Sucesso"
    /\ Len(mov_df) >= 1
    /\ ProjecaoEmDia(equip_sheet, mov_sheet, mov_setores_sheet,
                     equip_df, mov_df, mov_setores_df)

\* C14: while an item's quantity is 0 (as after a Saida of its whole stock), no
\* Saida takes anything from it: a Saida request that includes the item is not
\* carried out, a request turned down writes nothing, and when it is turned
\* down at that item for a positive quantity the error is "Estoque Insuficiente".
C14_SaidaDeZeroRecusada ==
    [][(last'.op = "confirmar" /\ last'.tipo = SAIDA) =>
          /\ MovimentacaoFeita =>
                \A j \in DOMAIN last'.atualizados :
                    LinhaDe(equip_sheet, last'.atualizados[j]).quantidade > 0
          /\ MovimentacaoRecusada =>
                /\ equip_sheet' = equip_sheet
                /\ mov_sheet' = mov_sheet
          /\ (/\ MovimentacaoRecusada
              /\ last'.pos # 0
              /\ LinhaDe(equip_sheet, last'.item).quantidade = 0
              /\ last'.qtd.num /\ last'.qtd.v > 0)
                => last'.msg = "EstoqueInsuficiente"
       ]_vars

\* a Saida of the whole stock of an item was recorded, the item is at 0 and
\* "Fora de Estoque", and a further Saida of 1 was turned down at it
C14_Witness ==
    /\ last.op = "confirmar" /\ last.tipo = SAIDA
    /\ last.msg = "EstoqueInsuficiente" /\ last.qtd.num /\ last.qtd.v = 1
    /\ TemId(equip_sheet, last.item)
    /\ LinhaDe(equip_sheet, last.item).quantidade = 0
    /\ LinhaDe(equip_sheet, last.item).status = FORA_DE_ESTOQUE
    /\ \E k \in DOMAIN mov_sheet :
          /\ mov_sheet[k].id_equipamento_fk = last.item
          /\ mov_sheet[k].tipo_movimentacao = SAIDA
          /\ mov_sheet[k].quantidade = MaxEstoque
          /\ k = Len(mov_sheet)

\* the step is a click on "Registrar" of the transfers tab
PedidoDeRegistro == last'.op = "registrar_setor"

\* C15: a registration whose origin sector equals its destination sector is
\* turned down and appends no row, whatever the type, the Kit entries, the
\* patrimonio and the other fields hold.
C15_RotaIgualRecusada ==
    [][(PedidoDeRegistro /\ last'.form[1] = last'.form[2]) =>
          /\ last'.msg # "Sucesso"
          /\ mov_setores_sheet' = mov_setores_sheet
       ]_vars

\* a complete Kit from sector A to sector A was turned down for its route
C15_Witness ==
    /\ last.op = "registrar_setor" /\ last.tipo = KIT /\ last.n = 0
    /\ last.form = <<"A", "A">>
    /\ last.msg = "MovimentacaoInvalida"

\* C16: a Kit registration with any of its six entries empty is turned down
\* with the Kit warning and appends no row.
C16_KitIncompletoRecusado ==
    [][(PedidoDeRegistro /\ last'.tipo = KIT /\ last'.n > 0) =>
          /\ last'.msg = "CamposObrigatorios_Kit"
          /\ mov_setores_sheet' = mov_setores_sheet
       ]_vars

\* a Kit with one entry empty and everything else in order was turned down
C16_Witness ==
    /\ last.op = "registrar_setor" /\ last.tipo = KIT /\ last.n = 1
    /\ last.form = <<"A", "B">>
    /\ last.msg = "CamposObrigatorios_Kit"

\* C17: every Kit row of "movimentacoes_setores" holds three lines of asset
\* tags and three lines of service tags; neither cell is empty.
C17_KitGuardaAsDuasListas ==
    \A i \in DOMAIN mov_setores_sheet :
        mov_setores_sheet[i].tipo_equipamento = KIT =>
            /\ Len(mov_setores_sheet[i].patrimonio) = 3
            /\ Len(mov_setores_sheet[i].servicetag) = 3

\* the step is a click on "Marcar como Regularizado" that sent its update
RegularizacaoFeita == last'.op = "regularizar" /\ last'.msg = "Sucesso"

\* C18: regularizing a set of ids marks the rows of the set "Regularizado",
\* whether they were "Pendente" or marked already, and touches no other row; a
\* selection of rows all marked already is accepted and changes nothing; and
\* regularizing the same set again leaves the sheet as the first time left it.
C18_RegularizarIdempotente ==
    [][(last'.op = "regularizar" /\ last'.atualizados # <<>>) =>
          LET sel == Selecionados(last')
          IN /\ last'.msg = "Sucesso"
             /\ Len(mov_setores_sheet') = Len(mov_setores_sheet)
             /\ \A i \in DOMAIN mov_setores_sheet :
                   mov_setores_sheet'[i] =
                       IF mov_setores_sheet[i].id \in sel
                       THEN [mov_setores_sheet[i] EXCEPT
                                !.status_regularizacao = REGULARIZADO]
                       ELSE mov_setores_sheet[i]
             /\ Regularizada(mov_setores_sheet', mov_setores_df', sel)
                   = mov_setores_sheet'
       ]_vars

\* two rows were regularized in one request, one of them marked already
C18_Witness ==
    /\ last.op = "regularizar" /\ last.msg = "Sucesso"
    /\ last.n = 2 /\ last.ja = 1
    /\ \A i \in DOMAIN mov_setores_sheet :
          mov_setores_sheet[i].status_regularizacao = REGULARIZADO

\* C19: a transfer is registered "Pendente"; a row that is "Regularizado" stays
\* so; and the only change ever made to an existing row is its status going from
\* "Pendente" to "Regularizado".
C19_StatusSoAvanca ==
    [][/\ Len(mov_setores_sheet') >= Len(mov_setores_sheet)
       /\ \A i \in DOMAIN mov_setores_sheet :
             \/ mov_setores_sheet'[i] = mov_setores_sheet[i]
             \/ /\ mov_setores_sheet[i].status_regularizacao = PENDENTE
                /\ mov_setores_sheet'[i] =
                      [mov_setores_sheet[i] EXCEPT
                          !.status_regularizacao = REGULARIZADO]
       /\ \A i \in (Len(mov_setores_sheet) + 1)..Len(mov_setores_sheet') :
             mov_setores_sheet'[i].status_regularizacao = PENDENTE
       ]_vars

\* a transfer was registered after an earlier one had been regularized
C19_Witness ==
    /\ last.op = "registrar_setor" /\ last.msg = "Sucesso"
    /\ Len(mov_setores_sheet) = 2
    /\ mov_setores_sheet[1].status_regularizacao = REGULARIZADO
    /\ mov_setores_sheet[2].status_regularizacao = PENDENTE

\* C20: a regularization sends an update only when some selected id is the id
\* of a row of the sheet, and the rows it changes are rows of selected ids; with
\* no selected id in the sheet nothing is sent and every row stays as it is.
C20_SoLinhasEncontradas ==
    [][RegularizacaoFeita =>
          LET sel == Selecionados(last')
          IN /\ \E id \in sel : TemId(mov_setores_sheet, id)
             /\ \A i \in DOMAIN mov_setores_sheet :
                   mov_setores_sheet'[i] # mov_setores_sheet[i]
                       => mov_setores_sheet[i].id \in sel
       ]_vars

\* the step is a click on "Confirmar" that read the texts of the window
PedidoDeMovimentacao == last'.op = "confirmar" /\ last'.form # <<>>

\* the warnings of the required-field checks
AvisosDeCampo ==
    {"CampoVazio_Responsavel", "CamposVazios_DestinoOrigem",
     "CampoObrigatorio_MotivoLaudo"}

\* C21: a movement request is refused with a required-field warning, and
\* nothing is written, exactly when the responsible is empty, or the type is
\* Saida or Entrada and the destination/origin is empty, or the type is Descarte
\* and the justification is blank once trimmed; a Descarte with no destination
\* and a Saida or Entrada with no justification get no such warning.
C21_CamposObrigatorios ==
    [][PedidoDeMovimentacao =>
          LET f == last'.form
              falta == \/ f[1] = ""
                       \/ last'.tipo \in {SAIDA, ENTRADA} /\ f[2] = ""
                       \/ last'.tipo = DESCARTE /\ f[5] \in {"", " "}
          IN /\ falta <=> last'.msg \in AvisosDeCampo
             /\ falta => /\ equip_sheet' = equip_sheet
                         /\ mov_sheet' = mov_sheet
                         /\ mov_setores_sheet' = mov_setores_sheet
       ]_vars

\* a Descarte whose justification is a blank was refused
C21_Witness ==
    /\ last.op = "confirmar" /\ last.tipo = DESCARTE
    /\ last.form # <<>> /\ last.form[1] = "r" /\ last.form[5] = " "
    /\ last.msg = "CampoObrigatorio_MotivoLaudo"
    /\ equip_sheet # <<>>

\* C22: the records of a Descarte have solicitante and chamado empty whatever
\* was typed and hold the trimmed justification; the records of a Saida or an
\* Entrada have motivo_laudo empty whatever was typed and hold solicitante and
\* chamado as typed.
C22_CamposDoRegistro ==
    [][(MovimentacaoFeita /\ last'.form # <<>>) =>
          LET f == last'.form
          IN \A i \in NovasPosicoes :
                IF last'.tipo = DESCARTE
                THEN /\ mov_sheet'[i].solicitante = ""
                     /\ mov_sheet'[i].chamado = ""
                     /\ mov_sheet'[i].motivo_laudo = (IF f[5] = " m " THEN "m" ELSE f[5])
                ELSE /\ mov_sheet'[i].solicitante = f[3]
                     /\ mov_sheet'[i].chamado = f[4]
                     /\ mov_sheet'[i].motivo_laudo = ""
       ]_vars

\* a Descarte was recorded with solicitante and chamado typed in the window
C22_Witness ==
    /\ last.op = "confirmar" /\ last.msg = "Sucesso" /\ last.tipo = DESCARTE
    /\ last.form # <<>> /\ last.form[3] = "s" /\ last.form[4] = "c"
    /\ mov_sheet # <<>>
    /\ mov_sheet[Len(mov_sheet)].tipo_movimentacao = DESCARTE
    /\ mov_sheet[Len(mov_sheet)].solicitante = ""
    /\ mov_sheet[Len(mov_sheet)].motivo_laudo = "m"

\* day a is not after day b, on the calendar
NaoDepois(a, b) == a.mes < b.mes \/ (a.mes = b.mes /\ a.dia <= b.dia)

\* a report was drawn with the filter 'intervalo' and two dates of the calendar
RelatorioPorIntervalo(op) ==
    /\ last.op = op /\ last.msg \in {"Sucesso", "RelatorioVazio_Filtros"}
    /\ last.form[1] = "intervalo"

NasLinhas(id) == \E k \in DOMAIN last.linhas : last.linhas[k] = id

\* C23: with the filter 'intervalo' the equipment report with history lists a
\* movement exactly when its cell holds a timestamp whose day is no earlier
\* than the start day and no later than the end day, whatever its time of day;
\* the report of transfers (status filter 'todos') does the same.
C23_IntervaloInclusivo ==
    /\ (RelatorioPorIntervalo("relatorio") /\ last.tipo = "historico") =>
          \A i \in DOMAIN mov_df :
              NasLinhas(mov_df[i].id_movimentacao) <=>
                  /\ mov_df[i].data_movimentacao.valida
                  /\ NaoDepois(last.form[2], mov_df[i].data_movimentacao)
                  /\ NaoDepois(mov_df[i].data_movimentacao, last.form[3])
    /\ (RelatorioPorIntervalo("relatorio_setores") /\ last.tipo = "todos") =>
          \A i \in DOMAIN mov_setores_df :
              NasLinhas(mov_setores_df[i].id) <=>
                  /\ mov_setores_df[i].data_movimentacao.valida
                  /\ NaoDepois(last.form[2], mov_setores_df[i].data_movimentacao)
                  /\ NaoDepois(mov_setores_df[i].data_movimentacao, last.form[3])

\* d is the valid date of this day, month and second of the day
EhData(d, dia, mes, seg) == d.valida /\ d.dia = dia /\ d.mes = mes /\ d.seg = seg

\* from 01/01/2025 to 31/01/2025 the report lists the movement of 31-01-2025
\* 23:59:59 and leaves out the movement of 01-02-2025 00:00:00
C23_Witness ==
    /\ last.op = "relatorio" /\ last.msg = "Sucesso" /\ last.tipo = "historico"
    /\ last.form[1] = "intervalo"
    /\ EhData(last.form[2], 1, 1, 0) /\ EhData(last.form[3], 31, 1, 0)
    /\ Len(mov_df) = 2
    /\ EhData(mov_df[1].data_movimentacao, 31, 1, 86399)
    /\ EhData(mov_df[2].data_movimentacao, 1, 2, 0)
    /\ Len(last.linhas) = 1 /\ last.linhas[1] = 1

\* C24: in the report of transfers a row whose status cell is blank, or whose
\* frame has no status column, is listed under the filter 'pendentes' and left
\* out under 'regularizados'.
C24_SemStatusPendente ==
    (last.op = "relatorio_setores" /\ last.form[1] = "todos") =>
        \A i \in DOMAIN mov_setores_df :
            mov_setores_df[i].status_regularizacao \in {"", SEM_COLUNA} =>
                /\ last.tipo = "pendentes" => NasLinhas(mov_setores_df[i].id)
                /\ last.tipo = "regularizados" => ~NasLinhas(mov_setores_df[i].id)

\* the movements of type Saida recorded for an equipment id
SaidasDe(item_id) ==
    {i \in DOMAIN mov_sheet : /\ mov_sheet[i].id_equipamento_fk = item_id
                              /\ mov_sheet[i].tipo_movimentacao = SAIDA}

\* C25: when an Entrada of one item is recorded, the suggestion the window
\* offered was the destination and the requester of the Saida of that item with
\* the greatest id_movimentacao, movements of other types and of other items
\* left aside, and none when the item has no Saida; and the record keeps the
\* origin that was entered, whether or not it is the suggestion.
C25_SugestaoDeOrigem ==
    [][(MovimentacaoFeita /\ last'.tipo = ENTRADA /\ last'.n = 1) =>
          LET item_id == last'.atualizados[1]
              saidas == SaidasDe(item_id)
          IN /\ saidas = {} => last'.sugestao = <<>>
             /\ saidas # {} =>
                   \E i \in saidas :
                       /\ \A j \in saidas : mov_sheet[j].id_movimentacao
                                                <= mov_sheet[i].id_movimentacao
                       /\ last'.sugestao = <<mov_sheet[i].destino_origem,
                                              mov_sheet[i].solicitante>>
             /\ mov_sheet'[Len(mov_sheet')].destino_origem = last'.form[2]
       ]_vars

\* after a Saida to "d" and a later Saida to "e" of the same item, an Entrada
\* was offered "e" and recorded with another origin
C25_Witness ==
    /\ last.op = "confirmar" /\ last.msg = "Sucesso" /\ last.tipo = ENTRADA
    /\ last.sugestao = <<"e", "t">>
    /\ Len(mov_sheet) = 3
    /\ mov_sheet[1].tipo_movimentacao = SAIDA /\ mov_sheet[1].destino_origem = "d"
    /\ mov_sheet[2].tipo_movimentacao = SAIDA /\ mov_sheet[2].destino_origem = "e"
    /\ mov_sheet[2].id_equipamento_fk = mov_sheet[1].id_equipamento_fk
    /\ mov_sheet[3].id_equipamento_fk = mov_sheet[1].id_equipamento_fk
    /\ mov_sheet[3].destino_origem = "o"

\* C26: a deletion of k selected equipment removes the rows that hold the
\* selected ids and no other row, wherever the rows are; the rows that remain
\* keep their contents and their order.
C26_ExcluiSoOsSelecionados ==
    [][(last'.op = "excluir" /\ last'.msg = "Sucesso") =>
          LET sel == Selecionados(last')
          IN /\ equip_sheet' = SelectSeq(equip_sheet, LAMBDA r : r.id \notin sel)
             /\ Len(equip_sheet') = Len(equip_sheet) - last'.n
             /\ mov_sheet' = mov_sheet
       ]_vars

\* two equipment in rows 2 and 3 were deleted in one request
C26_Witness ==
    /\ last.op = "excluir" /\ last.msg = "Sucesso" /\ last.n = 2
    /\ last.atualizados = <<1, 2>>
    /\ equip_sheet = <<>>

\* C27: in every state of the sheet, between the remote calls of a movement
\* as well, an equipment is "Em Estoque" exactly when its quantidade is above 0.
C27_StatusAcompanhaQuantidade ==
    \A i \in DOMAIN equip_sheet :
        equip_sheet[i].status = EM_ESTOQUE <=> equip_sheet[i].quantidade > 0

\* the records a step appends for an equipment id
NovasDe(item_id) == {k \in NovasPosicoes : mov_sheet'[k].id_equipamento_fk = item_id}

\* C28: with one writer, no failing call and no edit, the quantity of an
\* equipment changes only together with one movement record of that
\* equipment appended in the same step, by the quantity of the record (added
\* for an Entrada, subtracted for a Saida, down to 0 for a Descarte); every
\* record appended belongs to an equipment of the sheet; and no quantity is
\* ever below 0.  So the quantity is the one at creation plus the Entradas
\* minus the Saidas recorded since the last Descarte.
C28_LivroRazao ==
    [][/\ \A i \in DOMAIN equip_sheet' : equip_sheet'[i].quantidade >= 0
       /\ \A k \in NovasPosicoes : TemId(equip_sheet, mov_sheet'[k].id_equipamento_fk)
       /\ Len(mov_sheet') >= Len(mov_sheet)
       /\ \A k \in DOMAIN mov_sheet : mov_sheet'[k] = mov_sheet[k]
       /\ \A i \in DOMAIN equip_sheet :
             LET id == equip_sheet[i].id
                 q == equip_sheet[i].quantidade
                 novas == NovasDe(id)
             IN IF novas = {}
                THEN TemId(equip_sheet', id) => LinhaDe(equip_sheet', id).quantidade = q
                ELSE /\ Cardinality(novas) = 1
                     /\ equip_sheet'[i].id = id
                     /\ \A k \in novas :
                           equip_sheet'[i].quantidade =
                               IF mov_sheet'[k].tipo_movimentacao = ENTRADA
                               THEN q + mov_sheet'[k].quantidade
                               ELSE IF mov_sheet'[k].tipo_movimentacao = SAIDA
                               THEN q - mov_sheet'[k].quantidade
                               ELSE 0
       ]_vars

\* an equipment was discarded, then received 2 units, then gave 1 out: it holds 1
C28_Witness ==
    /\ last.op = "confirmar" /\ last.msg = "Sucesso" /\ last.tipo = SAIDA
    /\ Len(mov_sheet) = 3
    /\ \A k \in 1..3 : mov_sheet[k].id_equipamento_fk = 1
    /\ mov_sheet[1].tipo_movimentacao = DESCARTE
    /\ mov_sheet[2].tipo_movimentacao = ENTRADA /\ mov_sheet[2].quantidade = 2
    /\ mov_sheet[3].tipo_movimentacao = SAIDA /\ mov_sheet[3].quantidade = 1
    /\ TemId(equip_sheet, 1) /\ LinhaDe(equip_sheet, 1).quantidade = 1

\* C29: a successful edit leaves the row with the quantity typed and with
\* the status that quantity alone gives, "Em Estoque" above 0 and "Fora de
\* Estoque" at 0, never "Descartado", whatever the status was; the row keeps
\* its id, its place and its data_cadastro, and no movement is recorded.
C29_EdicaoRecalculaStatus ==
    [][(last'.op = "editar" /\ last'.msg = "Sucesso") =>
          LET i == PrimeiroIndice(equip_sheet, last'.item, 1)
          IN /\ i # 0
             /\ Len(equip_sheet') = Len(equip_sheet)
             /\ \A j \in DOMAIN equip_sheet : j # i => equip_sheet'[j] = equip_sheet[j]
             /\ equip_sheet'[i].id = equip_sheet[i].id
             /\ equip_sheet'[i].data_cadastro = equip_sheet[i].data_cadastro
             /\ equip_sheet'[i].quantidade = last'.qtd.v
             /\ equip_sheet'[i].status =
                   (IF last'.qtd.v > 0 THEN EM_ESTOQUE ELSE FORA_DE_ESTOQUE)
             /\ mov_sheet' = mov_sheet
       ]_vars

\* a discarded equipment was edited, a second after it was registered, with
\* its quantity left at 0: it is "Fora de Estoque"
C29_Witness ==
    /\ last.op = "editar" /\ last.msg = "Sucesso"
    /\ last.tipo = DESCARTADO /\ last.qtd.num /\ last.qtd.v = 0
    /\ TemId(equip_sheet, last.item)
    /\ LinhaDe(equip_sheet, last.item).status = FORA_DE_ESTOQUE
    /\ LinhaDe(equip_sheet, last.item).data_cadastro < relogio

\* C30: a Descarte whose required fields are filled in is recorded only when
\* every item holds a quantity above 0, and then each record carries the
\* quantity the item held and the item becomes "Descartado"; otherwise it is
\* refused as a quantity that is not above 0, for an item that holds 0, and
\* nothing is written.  A row becomes "Descartado" only from a quantity above 0.
C30_DescarteDeZeroRecusado ==
    [][/\ (PedidoDeMovimentacao /\ last'.tipo = DESCARTE
                /\ last'.msg \notin AvisosDeCampo) =>
          IF last'.msg = "Sucesso"
          THEN \A k \in NovasPosicoes :
                  LET id == mov_sheet'[k].id_equipamento_fk
                  IN /\ LinhaDe(equip_sheet, id).quantidade > 0
                     /\ mov_sheet'[k].quantidade = LinhaDe(equip_sheet, id).quantidade
                     /\ LinhaDe(equip_sheet', id).status = DESCARTADO
          ELSE /\ last'.msg = "ValorInvalido_NaoPositivo"
               /\ LinhaDe(equip_sheet, last'.item).quantidade = 0
               /\ equip_sheet' = equip_sheet
               /\ mov_sheet' = mov_sheet
       /\ \A i \in DOMAIN equip_sheet :
             (/\ TemId(equip_sheet', equip_sheet[i].id)
              /\ LinhaDe(equip_sheet', equip_sheet[i].id).status = DESCARTADO
              /\ equip_sheet[i].status # DESCARTADO)
                => equip_sheet[i].quantidade > 0
       ]_vars

\* the Descarte of an equipment that is "Fora de Estoque" was refused
C30_Witness ==
    /\ last.op = "confirmar" /\ last.tipo = DESCARTE
    /\ last.msg = "ValorInvalido_NaoPositivo" /\ last.qtd.num /\ last.qtd.v = 0
    /\ TemId(equip_sheet, last.item)
    /\ LinhaDe(equip_sheet, last.item).quantidade = 0
    /\ LinhaDe(equip_sheet, last.item).status = FORA_DE_ESTOQUE

=============================================================================
